---- MODULE Spec2Model ----
(***************************************************************************)
(* Model of the demand-forecasting service of python-service:              *)
(*   models/xgboost_optimal.py  OptimalXGBoostForecaster (train, predict,  *)
(*                              save_model, load_model) and the module     *)
(*                              level singleton `forecaster`               *)
(*   main.py                    the train, forecast and predict-universal  *)
(*                              endpoints, which FastAPI runs on a thread  *)
(*                              pool (they are plain `def` handlers), and  *)
(*                              the detectors _calculate_momentum and      *)
(*                              _detect_burst                              *)
(*   models/ensemble.py         calculate_adaptive_weights,                *)
(*                              ensemble_forecast, generate_recommendations*)
(* Dates are day ordinals: ordinal 0 is Monday 2024-01-01.  Quantities and *)
(* regressor outputs are integers; the sections on the pure functions say  *)
(* where a fraction or a finer unit stands for a float.                    *)
(***************************************************************************)
EXTENDS Integers, Sequences, FiniteSets, TLC

VARIABLES
    models,         \* forecaster.models: dict product id -> container
    history_cache,  \* forecaster.history_cache: dict product id -> dense frame
    files,          \* the three model directories: dir -> dict product id -> payload
    meta_files,     \* models/xgboost_<id>_metadata.json: dict product id -> metadata
    model_cache,    \* utils.cache.model_cache: dict cache key (product id) -> brain
    trains,         \* number of training runs started so far
    pc,             \* per request thread: the statement it is about to run
    loc             \* per request thread: its local variables

vars == <<models, history_cache, files, meta_files, model_cache, trains, pc, loc>>

-----------------------------------------------------------------------------
(* Bounds of the model *)

\* training runs started over a behaviour
MaxTrains == 2
\* largest forecast horizon requested
MaxDays == 2

(* Program constants *)

MIN_TRAINING_DAYS == 30
\* rows kept in the artifact's trailing window: dense_df.tail(30)
LAST_DATA_ROWS == 30
\* train_model: minimum number of raw rows
ENDPOINT_MIN_ROWS == 7

Products == {"p1", "p2"}
TrainThreads == {"t1"}
ReadThreads == {"t2"}
Threads == TrainThreads \cup ReadThreads

\* get_forecast / predict_universal: the candidate directories, in order
ModelCandidates == <<"training/models_output", "models", "models/artifacts">>
\* OptimalXGBoostForecaster.models_dir
ModelsDir == "models"

-----------------------------------------------------------------------------
(* Small arithmetic and sequence helpers *)

Max(a, b) == IF a >= b THEN a ELSE b
Min(a, b) == IF a <= b THEN a ELSE b
Abs(a) == IF a >= 0 THEN a ELSE 0 - a

\* df.tail(n)
TailN(s, n) ==
    IF Len(s) <= n THEN s ELSE SubSeq(s, Len(s) - n + 1, Len(s))

\* a dict rebuilt around the one key assigned
DictReplace(d, k, v) == [x \in {k} |-> v]

\* dict assignment d[k] = v
DictSet(d, k, v) == [x \in (DOMAIN d) \cup {k} |-> IF x = k THEN v ELSE d[x]]

EmptyDict == [x \in {} |-> 0]

-----------------------------------------------------------------------------
(* Calendar: pandas Timestamp arithmetic and rendering *)

\* 2024 is a leap year
MonthLen == <<31, 29, 31, 30, 31, 30, 31, 31, 30, 31, 30, 31>>

RECURSIVE CivilFrom(_, _)
CivilFrom(m, dayIndex) ==
    IF dayIndex < MonthLen[m] THEN <<2024, m, dayIndex + 1>>
    ELSE CivilFrom(m + 1, dayIndex - MonthLen[m])

\* next_date.date().isoformat(): the <<year, month, day>> the string spells
IsoFormat(ord) == CivilFrom(1, ord)

\* Timestamp.dayofweek: 0 = Monday
DayOfWeek(ord) == ord % 7

-----------------------------------------------------------------------------
(* Caller sales data: sequences of rows *)

Row(d, q) == [date |-> d, quantity |-> q]

\* a date string that pandas cannot parse
NaT == 0 - 1

\* n rows, one every `step` days from `first`
MkSeries(first, n, step, base) ==
    [i \in 1..n |-> Row(first + (i - 1) * step, base + ((i - 1) % 3))]

\* 30 consecutive days, given newest first
DataA == [i \in 1..30 |-> MkSeries(0, 30, 1, 2)[31 - i]]
\* 30 observed days over 31 calendar days (day 10 missing)
DataB == [i \in 1..30 |-> IF i <= 7 THEN Row(2 + i, 5) ELSE Row(3 + i, 6)]
\* 29 distinct days in 30 rows: day 5 is reported twice
DataShortDup == MkSeries(0, 29, 1, 2) \o <<Row(5, 4)>>
\* 12 observed days spread over 34 calendar days
DataSparse == MkSeries(0, 12, 3, 2)
DataFew == MkSeries(0, 3, 1, 2)
DataEmpty == <<>>
\* rows without a quantity/qty field
DataNoQty == [i \in 1..30 |-> [date |-> i - 1, amount |-> 1]]

\* rows whose dates cannot be parsed
DataBadDates == [i \in 1..8 |-> Row(NaT, 1)]

\* the request bodies of the model, by name
SalesInputs ==
    {"A", "B", "ShortDup", "Sparse", "Few", "Empty", "NoQty", "BadDates"}

SalesData(name) ==
    CASE name = "A" -> DataA
      [] name = "B" -> DataB
      [] name = "ShortDup" -> DataShortDup
      [] name = "Sparse" -> DataSparse
      [] name = "Few" -> DataFew
      [] name = "Empty" -> DataEmpty
      [] name = "NoQty" -> DataNoQty
      [] name = "BadDates" -> DataBadDates

-----------------------------------------------------------------------------
(* OptimalXGBoostForecaster: frame preparation *)

Columns(sales) == UNION {DOMAIN sales[i] : i \in 1..Len(sales)}

\* the value of column c in a row; a cell that is absent is NaN, filled with 0
Cell(row, c) == IF c \in DOMAIN row THEN row[c] ELSE 0

\* groupby("date")["quantity"].sum() for one date
SumOn(sales, c, d) ==
    LET f[i \in 0..Len(sales)] ==
            IF i = 0 THEN 0
            ELSE f[i - 1] + (IF sales[i].date = d THEN Cell(sales[i], c) ELSE 0)
    IN  f[Len(sales)]

\* the dates of a frame in ascending order (sort_values("date") + groupby)
SortedDates(sales) ==
    LET D == {sales[i].date : i \in 1..Len(sales)}
    IN  [i \in 1..Cardinality(D) |->
            CHOOSE d \in D : Cardinality({e \in D : e < d}) = i - 1]

\* _normalize_dataframe: the frame, or the ValueError it raises
NormalizeDataframe(sales) ==
    IF sales = <<>> THEN [raised |-> FALSE, df |-> <<>>]
    ELSE LET qty_col == IF "quantity" \in Columns(sales) THEN "quantity"
                        ELSE IF "qty" \in Columns(sales) THEN "qty"
                        ELSE "None"
         IN  IF qty_col = "None"
             THEN [raised |-> TRUE, error |-> "no_quantity_field"]
             ELSE IF \E i \in 1..Len(sales) : sales[i].date = NaT
             THEN [raised |-> TRUE, error |-> "unparseable_date"]
             ELSE LET dates == SortedDates(sales)
                  IN  [raised |-> FALSE,
                       df |-> [i \in 1..Len(dates) |->
                                  Row(dates[i], SumOn(sales, qty_col, dates[i]))]]

MinDate(df) == CHOOSE d \in {df[i].date : i \in 1..Len(df)} :
                   \A j \in 1..Len(df) : d <= df[j].date
MaxDate(df) == CHOOSE d \in {df[i].date : i \in 1..Len(df)} :
                   \A j \in 1..Len(df) : d >= df[j].date

\* the quantity a frame holds on date d, fill_value when the date is absent
QtyOn(df, d, fill_value) ==
    IF \E i \in 1..Len(df) : df[i].date = d
    THEN (df[CHOOSE i \in 1..Len(df) : df[i].date = d]).quantity
    ELSE fill_value

\* _fill_missing_dates: reindex on every day between min and max, gaps 0
FillMissingDates(df) ==
    IF df = <<>> THEN df
    ELSE LET lo == MinDate(df)
             hi == MaxDate(df)
         IN  [i \in 1..(hi - lo + 1) |-> Row(lo + i - 1, QtyOn(df, lo + i - 1, 0))]

\* train, lines 119-127: the checks before any fitting
TrainCheck(sales) ==
    LET n == NormalizeDataframe(sales)
    IN  IF n.raised THEN [ok |-> FALSE, error |-> n.error]
        ELSE IF n.df = <<>> THEN [ok |-> FALSE, error |-> "empty"]
        ELSE IF Len(n.df) < MIN_TRAINING_DAYS
             THEN [ok |-> FALSE, error |-> "insufficient",
                   minimum |-> MIN_TRAINING_DAYS, got |-> Len(n.df)]
        ELSE [ok |-> TRUE, dense_df |-> FillMissingDates(n.df)]

\* train's checks on each request body of the model
TrainChecks == [name \in SalesInputs |-> TrainCheck(SalesData(name))]

-----------------------------------------------------------------------------
(* OptimalXGBoostForecaster: regressors, features of the rollout row *)

\* A fitted XGBRegressor is a deterministic function of the feature row.  The
\* model's regressors are one-split trees on is_weekend: leaf wd on weekdays,
\* leaf we on Saturdays and Sundays.
Stump(wd, we) == [wd |-> wd, we |-> we]

\* quantile estimates in order, the lower one negative on weekdays
FitOrdered ==
    [p10 |-> Stump(0 - 1, 1), p50 |-> Stump(2, 3), p90 |-> Stump(1, 5)]
\* independently fitted quantiles that cross: p10 above the median on weekdays
FitCrossing ==
    [p10 |-> Stump(3, 0), p50 |-> Stump(2, 0 - 2), p90 |-> Stump(4, 0 - 3)]

\* what the three fit() calls of one training run can produce
Fits == {FitOrdered, FitCrossing}

\* create_features on the extended history: the feature row of the last date
FeatureRow(extended) ==
    LET n == Len(extended)
        d == extended[n].date
        dom == IsoFormat(d)[3]
    IN  [day_of_week |-> DayOfWeek(d),
         day_of_month |-> dom,
         week_of_month |-> ((dom - 1) \div 7) + 1,
         is_weekend |-> IF DayOfWeek(d) \in {5, 6} THEN 1 ELSE 0,
         is_payday |-> IF dom \in (25..31) \cup (1..5) THEN 1 ELSE 0,
         sales_lag_1 |-> IF n >= 2 THEN extended[n - 1].quantity ELSE 0]

\* models[q].predict(feature_row)[0]
RegressorPredict(reg, feature_row) ==
    IF feature_row.is_weekend = 1 THEN reg.we ELSE reg.wd

\* _confidence_from_quantiles: ratio = width / denom against 0.2 and 0.4
ConfidenceFromQuantiles(lower, median, upper) ==
    LET width == Max(upper - lower, 0)
        denom == Max(Abs(median), 1)
    IN  IF 5 * width < denom THEN "HIGH"
        ELSE IF 5 * width < 2 * denom THEN "MEDIUM"
        ELSE "LOW"

\* predict, lines 280-282: the clamping of the three raw outputs
ClampQuantiles(raw10, raw50, raw90) ==
    LET p10 == Max(raw10, 0)
        p50 == Max(raw50, 0)
        p90 == Max(raw90, p50)
    IN  [lower_bound |-> p10, predicted_quantity |-> p50, upper_bound |-> p90]

\* the latest date itself, without the day added
NextDateSameDay(history) == MaxDate(history)

\* predict, line 270: the date of the next forecast point
NextDate(history) == MaxDate(history) + 1

\* predict, lines 269-297: the rollout over `days` steps; the placeholder row's
\* quantity (NaN) is written 0 here, it is read by no feature of its own row
RECURSIVE PredictLoop(_, _, _, _)
PredictLoop(regs, history, preds, days) ==
    IF days <= 0 THEN preds
    ELSE
      LET next_date == NextDate(history)
          extended == Append(history, Row(next_date, 0))
          feature_row == FeatureRow(extended)
          q == ClampQuantiles(RegressorPredict(regs.p10, feature_row),
                              RegressorPredict(regs.p50, feature_row),
                              RegressorPredict(regs.p90, feature_row))
          point == [date |-> IsoFormat(next_date),
                    lower_bound |-> q.lower_bound,
                    predicted_quantity |-> q.predicted_quantity,
                    upper_bound |-> q.upper_bound,
                    confidence |-> ConfidenceFromQuantiles(
                        q.lower_bound, q.predicted_quantity, q.upper_bound)]
      IN  PredictLoop(regs,
                      Append(history, Row(next_date, q.predicted_quantity)),
                      Append(preds, point), days - 1)

\* train, lines 206-227: the container of one training run
\* (the metadata's timestamp, metrics and feature importances are left out)
Container(product_id, regs, dense_df) ==
    [models |-> regs,
     last_data |-> TailN(dense_df, LAST_DATA_ROWS),
     metadata |-> [product_id |-> product_id, data_points |-> Len(dense_df)]]

\* a load that answers a missing file with an untrained default artifact
LoadModelDefault(dir, product_id) ==
    LET history == <<Row(0, 0)>>
    IN  [raised |-> FALSE,
         payload |-> [models |-> FitOrdered, history |-> history,
                      metadata |-> [product_id |-> product_id, data_points |-> 0]],
         history |-> history]

\* load_model, lines 326-333: what it would store, or the error it raises.
\* `payload.get("last_data") or payload.get("history")` asks a DataFrame for
\* its truth value, which pandas refuses with a ValueError.
LoadModel(dir, product_id) ==
    IF product_id \notin DOMAIN dir
    THEN [raised |-> TRUE, error |-> "model_file_not_found"]
    ELSE LET payload == dir[product_id]
         IN  IF "last_data" \in DOMAIN payload
             THEN [raised |-> TRUE, error |-> "truth_value_of_dataframe_ambiguous"]
             ELSE IF "models" \notin DOMAIN payload \/ "history" \notin DOMAIN payload
             THEN [raised |-> TRUE, error |-> "corrupted_model_file"]
             ELSE [raised |-> FALSE, payload |-> payload, history |-> payload.history]

-----------------------------------------------------------------------------
(* State *)

Raised(err) == [kind |-> "raised", error |-> err]
Returned(val) == [kind |-> "returned", value |-> val]
Http(code, body) == [kind |-> "http", status |-> code, body |-> body]

\* dict.get as an option: the set holding the entry, empty when absent
Entry(d, k) == IF k \in DOMAIN d THEN {d[k]} ELSE {}

\* everything the service holds for one product id
ArtifactState(p) ==
    [models |-> Entry(models, p),
     history_cache |-> Entry(history_cache, p),
     pkl |-> [d \in DOMAIN files |-> Entry(files[d], p)],
     metadata_json |-> Entry(meta_files, p)]

\* where a request finds the product's artifact when it arrives
ArtifactAt(p) ==
    [in_memory |-> p \in DOMAIN models,
     stored |-> {d \in DOMAIN files : p \in DOMAIN files[d]}]

Idle == [op |-> "idle"]

\* the container of a train of p that has just returned to its caller, which
\* has not made its next request yet
JustTrained(p) ==
    {loc[w].container : w \in {x \in TrainThreads :
        /\ pc[x] = "done" /\ loc[x].op = "train" /\ loc[x].p = p
        /\ loc[x].result.kind = "returned"}}

Init ==
    /\ models = EmptyDict
    /\ history_cache = EmptyDict
    /\ files = [d \in {ModelCandidates[i] : i \in 1..Len(ModelCandidates)} |-> EmptyDict]
    /\ meta_files = EmptyDict
    /\ model_cache = EmptyDict
    /\ trains = 0
    /\ pc = [t \in Threads |-> "idle"]
    /\ loc = [t \in Threads |-> Idle]

\* the request of thread t ends with outcome r
Finish(t, r) ==
    /\ pc' = [pc EXCEPT ![t] = "done"]
    /\ loc' = [loc EXCEPT ![t] = [loc[t] EXCEPT !.result = r]]

Goto(t, label, l) ==
    /\ pc' = [pc EXCEPT ![t] = label]
    /\ loc' = [loc EXCEPT ![t] = l]

-----------------------------------------------------------------------------
(* Training: train_model (main.py) and OptimalXGBoostForecaster.train *)

\* train_model, lines 2139-2164: the endpoint's own validation; "ok" or the
\* detail of the 400 it answers
EndpointValidation(sales) ==
    IF Len(sales) = 0 THEN "sales_data_empty"
    ELSE IF Len(sales) < ENDPOINT_MIN_ROWS THEN "insufficient_rows_minimum_7"
    ELSE IF \E i \in 1..Min(3, Len(sales)) :
                "date" \notin DOMAIN sales[i] \/ "quantity" \notin DOMAIN sales[i]
         THEN "row_missing_required_fields"
    ELSE "ok"

\* train_model, lines 2178-2186: how the endpoint answers an exception of
\* train; the detail of the answer is the exception's message
TrainFailure(via, error, isValueError) ==
    IF via = "direct" THEN Raised(error)
    ELSE IF isValueError THEN Http(400, error)
    ELSE Http(500, error)

\* a train request for a product of P with a body of S arrives: directly on
\* the forecaster, or at the endpoint
TrainRequest(t, P, S) ==
    /\ pc[t] = "idle"
    /\ trains < MaxTrains
    /\ \E p \in P, sales \in S, via \in {"direct", "endpoint"} :
         LET l == [op |-> "train", via |-> via, p |-> p, sales |-> sales,
                   before |-> ArtifactState(p), result |-> Idle]
             v == EndpointValidation(SalesData(sales))
         IN  IF via = "endpoint" /\ v # "ok"
             THEN /\ pc' = [pc EXCEPT ![t] = "done"]
                  /\ loc' = [loc EXCEPT ![t] =
                                [l EXCEPT !.result = Http(400, [error |-> v])]]
             ELSE Goto(t, "train_119", l)
    /\ UNCHANGED <<models, history_cache, files, meta_files, model_cache, trains>>

\* train, lines 119-220: normalise, check, densify, fit the three regressors
\* (any fit may raise; F is what the fits can produce), build the metadata
TrainFit(t, F) ==
    /\ pc[t] = "train_119"
    /\ LET c == TrainChecks[loc[t].sales]
       IN  IF ~c.ok
           THEN /\ Finish(t, TrainFailure(loc[t].via,
                             [k \in (DOMAIN c) \ {"ok"} |-> c[k]], TRUE))
                /\ trains' = trains
           ELSE \E fit \in F, fitted \in BOOLEAN :
                  IF ~fitted
                  THEN /\ Finish(t, TrainFailure(loc[t].via,
                                    [error |-> "regressor_fit_failed"], FALSE))
                       /\ trains' = trains
                  ELSE /\ Goto(t, "train_222",
                               loc[t] @@
                               [dense_df |-> c.dense_df,
                                container |-> Container(loc[t].p, fit, c.dense_df)])
                       /\ trains' = trains + 1
    /\ UNCHANGED <<models, history_cache, files, meta_files, model_cache>>

\* train, lines 222-227: self.models[product_id] = {...}
TrainSetModels(t) ==
    /\ pc[t] = "train_222"
    /\ models' = DictSet(models, loc[t].p, loc[t].container)
    /\ Goto(t, "train_228", loc[t])
    /\ UNCHANGED <<history_cache, files, meta_files, model_cache, trains>>

\* train, line 228: self.history_cache[product_id] = dense_df[...].copy()
TrainSetHistory(t) ==
    /\ pc[t] = "train_228"
    /\ history_cache' = DictSet(history_cache, loc[t].p, loc[t].dense_df)
    /\ Goto(t, "save_303", loc[t])
    /\ UNCHANGED <<models, files, meta_files, model_cache, trains>>

\* save_model, lines 302-314: read self.models, joblib.dump to the .pkl file,
\* then write the metadata json; either write can fail (OSError)
SaveModel(t) ==
    /\ pc[t] = "save_303"
    /\ IF loc[t].p \notin DOMAIN models
       THEN /\ Finish(t, TrainFailure(loc[t].via, [error |-> "model_not_found"], TRUE))
            /\ UNCHANGED <<files, meta_files>>
       ELSE LET payload == models[loc[t].p]
            IN  \E pkl_written \in BOOLEAN, json_written \in BOOLEAN :
                  IF ~pkl_written
                  THEN /\ ~json_written
                       /\ UNCHANGED <<files, meta_files>>
                       /\ Finish(t, TrainFailure(loc[t].via,
                                    [error |-> "os_error_pkl"], FALSE))
                  ELSE /\ files' = [files EXCEPT ![ModelsDir] =
                                       DictSet(files[ModelsDir], loc[t].p, payload)]
                       /\ IF json_written
                          THEN /\ meta_files' = DictSet(meta_files, loc[t].p,
                                                        payload.metadata)
                               /\ Goto(t, "train_231", loc[t])
                          ELSE /\ meta_files' = meta_files
                               /\ Finish(t, TrainFailure(loc[t].via,
                                            [error |-> "os_error_metadata"], FALSE))
    /\ UNCHANGED <<models, history_cache, model_cache, trains>>

\* train returns its result (line 231).  The endpoint then calls
\* forecaster.save_model(product_id, model_path) (line 2170): save_model takes
\* the product id alone, the call raises TypeError, answered 500 (line 2186).
TrainReturn(t) ==
    /\ pc[t] = "train_231"
    /\ LET value == [success |-> TRUE, product_id |-> loc[t].p,
                     data_points |-> Len(loc[t].dense_df)]
       IN  IF loc[t].via = "direct"
           THEN Finish(t, Returned(value))
           ELSE Finish(t, Http(500, [error |-> "type_error_save_model_arguments"]))
    /\ UNCHANGED <<models, history_cache, files, meta_files, model_cache, trains>>

\* the caller has its answer; the thread takes the next request
Respond(t) ==
    /\ pc[t] = "done"
    /\ pc' = [pc EXCEPT ![t] = "idle"]
    /\ loc' = [loc EXCEPT ![t] = Idle]
    /\ UNCHANGED <<models, history_cache, files, meta_files, model_cache, trains>>

TrainStep(t, P, S, F) ==
    \/ TrainRequest(t, P, S)
    \/ TrainFit(t, F)
    \/ TrainSetModels(t)
    \/ TrainSetHistory(t)
    \/ SaveModel(t)
    \/ TrainReturn(t)

-----------------------------------------------------------------------------
(* OptimalXGBoostForecaster.predict *)

\* predict is called (lines 255-256): a product that is not in self.models is
\* loaded from the models directory first; an error of load_model propagates
PredictCall(t, P) ==
    /\ pc[t] = "idle"
    /\ \E p \in P, days \in {1, MaxDays} :
         LET l == [op |-> "predict", p |-> p, days |-> days,
                   at_call |-> ArtifactAt(p), seen |-> JustTrained(p),
                   result |-> Idle]
             r == LoadModel(files[ModelsDir], p)
         IN  IF p \in DOMAIN models
             THEN /\ Goto(t, "predict_258", l)
                  /\ UNCHANGED <<models, history_cache>>
             ELSE IF r.raised
             THEN /\ pc' = [pc EXCEPT ![t] = "done"]
                  /\ loc' = [loc EXCEPT ![t] = [l EXCEPT !.result = Raised(r.error)]]
                  /\ UNCHANGED <<models, history_cache>>
             ELSE /\ models' = DictSet(models, p, r.payload)
                  /\ history_cache' = DictSet(history_cache, p, r.history)
                  /\ Goto(t, "predict_258", l)
    /\ UNCHANGED <<files, meta_files, model_cache, trains>>

\* predict, lines 258-259
PredictCheck(t) ==
    /\ pc[t] = "predict_258"
    /\ IF loc[t].p \notin DOMAIN models \/ loc[t].p \notin DOMAIN history_cache
       THEN Finish(t, Raised("no_trained_model_found"))
       ELSE Goto(t, "predict_261", loc[t])
    /\ UNCHANGED <<models, history_cache, files, meta_files, model_cache, trains>>

\* predict, lines 261-262: container = self.models[product_id]
PredictReadModels(t) ==
    /\ pc[t] = "predict_261"
    /\ Goto(t, "predict_264", loc[t] @@ [container |-> models[loc[t].p]])
    /\ UNCHANGED <<models, history_cache, files, meta_files, model_cache, trains>>

\* a rollout on the cached history itself: the forecast rows stay in the cache
PredictRolloutInPlace(t) ==
    /\ pc[t] = "predict_264"
    /\ LET history == FillMissingDates(history_cache[loc[t].p])
           preds == PredictLoop(loc[t].container.models, history, <<>>, loc[t].days)
       IN  /\ Goto(t, "predict_299", loc[t] @@ [history |-> history, preds |-> preds])
           /\ history_cache' =
                  DictSet(history_cache, loc[t].p,
                          history \o [i \in 1..Len(preds) |->
                                         Row(MaxDate(history) + i,
                                             preds[i].predicted_quantity)])
    /\ UNCHANGED <<models, files, meta_files, model_cache, trains>>

\* predict, lines 264-297: copy self.history_cache[product_id], densify it and
\* roll the three regressors forward on the copy
PredictRollout(t) ==
    /\ pc[t] = "predict_264"
    /\ LET history == FillMissingDates(history_cache[loc[t].p])
       IN  Goto(t, "predict_299",
                loc[t] @@ [history |-> history,
                           preds |-> PredictLoop(loc[t].container.models, history,
                                                 <<>>, loc[t].days)])
    /\ UNCHANGED <<models, history_cache, files, meta_files, model_cache, trains>>

\* predict, line 299: return preds, len(self.history_cache[product_id])
PredictReturn(t) ==
    /\ pc[t] = "predict_299"
    /\ Finish(t, Returned([preds |-> loc[t].preds,
                           history_days |-> Len(history_cache[loc[t].p])]))
    /\ UNCHANGED <<models, history_cache, files, meta_files, model_cache, trains>>

PredictStep(t, P) ==
    \/ PredictCall(t, P)
    \/ PredictCheck(t)
    \/ PredictReadModels(t)
    \/ PredictRollout(t)
    \/ PredictReturn(t)

-----------------------------------------------------------------------------
(* Collaborators of main.py that are not part of the sources: the model   *)
(* cache (utils.cache) and HybridBrain, modelled from the specification    *)

\* model_cache.get(key): the cached object, if any
CacheGet(key) == Entry(model_cache, key)

\* HybridBrain.load_model(product_id, path): the artifact store's load
BrainLoadModel(dir, product_id) ==
    IF product_id \in DOMAIN dir /\ "models" \in DOMAIN dir[product_id]
    THEN [success |-> TRUE, brain |-> [loaded |-> TRUE, artifact |-> dir[product_id]]]
    ELSE [success |-> FALSE, brain |-> [loaded |-> FALSE]]

\* HybridBrain.train(training_data, product_id): the training contract of the
\* specification; raises on data the contract refuses
BrainTrain(training_data, product_id, fit) ==
    LET c == TrainCheck(training_data)
    IN  IF c.ok
        THEN [loaded |-> TRUE, artifact |-> Container(product_id, fit, c.dense_df)]
        ELSE [loaded |-> FALSE]

\* HybridBrain.predict_next_days(days): the autoregressive rollout of the
\* artifact, or no prediction at all
BrainPredictNextDays(brain, days, empty) ==
    IF empty \/ ~brain.loaded THEN <<>>
    ELSE PredictLoop(brain.artifact.models, brain.artifact.last_data, <<>>, days)

-----------------------------------------------------------------------------
(* main.py: the forecast endpoint *)

\* lines 1699-1711: the first candidate directory that holds the product's file
FirstCandidate(product_id) ==
    LET hit == {i \in 1..Len(ModelCandidates) :
                   product_id \in DOMAIN files[ModelCandidates[i]]}
    IN  IF hit = {} THEN "None"
        ELSE ModelCandidates[CHOOSE i \in hit : \A j \in hit : i <= j]

\* get_forecast, lines 1696-1724
ForecastRequest(t, P) ==
    /\ pc[t] = "idle"
    /\ \E p \in P, days \in {1, MaxDays} :
         LET model_path == FirstCandidate(p)
             l == [op |-> "forecast", p |-> p, days |-> days,
                   at_call |-> ArtifactAt(p), seen |-> JustTrained(p),
                   model_path |-> model_path, result |-> Idle]
         IN  IF model_path = "None"
             THEN /\ pc' = [pc EXCEPT ![t] = "done"]
                  /\ loc' = [loc EXCEPT ![t] =
                                [l EXCEPT !.result =
                                    Http(404, [error |-> "model_not_found"])]]
             ELSE Goto(t, "forecast_1728", l)
    /\ UNCHANGED <<models, history_cache, files, meta_files, model_cache, trains>>

\* get_forecast, lines 1727-1744: the cached forecaster, or a HybridBrain
\* loaded from model_path and cached
ForecastLoad(t) ==
    /\ pc[t] = "forecast_1728"
    /\ LET cached == CacheGet(loc[t].p)
           r == BrainLoadModel(files[loc[t].model_path], loc[t].p)
       IN  IF cached # {}
           THEN /\ Goto(t, "forecast_1747",
                        loc[t] @@ [product_forecaster |-> CHOOSE b \in cached : TRUE])
                /\ model_cache' = model_cache
           ELSE IF ~r.success
           THEN /\ Finish(t, Http(500, [error |-> "model_file_failed_to_load"]))
                /\ model_cache' = model_cache
           ELSE /\ Goto(t, "forecast_1747", loc[t] @@ [product_forecaster |-> r.brain])
                /\ model_cache' = DictSet(model_cache, loc[t].p, r.brain)
    /\ UNCHANGED <<models, history_cache, files, meta_files, trains>>

\* get_forecast, lines 1746-1777: empty predictions are answered 500
ForecastPredict(t) ==
    /\ pc[t] = "forecast_1747"
    /\ \E empty \in BOOLEAN :
         LET predictions == BrainPredictNextDays(loc[t].product_forecaster,
                                                 loc[t].days, empty)
             r == IF predictions = <<>>
                  THEN Http(500, [error |-> "model_failed_to_generate_predictions"])
                  ELSE Http(200, [predictions |-> predictions,
                                  model_loaded |-> loc[t].model_path])
         IN  /\ pc' = [pc EXCEPT ![t] = "done"]
             /\ loc' = [loc EXCEPT ![t] =
                           [loc[t] EXCEPT !.result = r] @@ [predicted |-> predictions]]
    /\ UNCHANGED <<models, history_cache, files, meta_files, model_cache, trains>>

\* clear_cache, lines 1528-1537
ClearCache(t) ==
    /\ pc[t] = "idle"
    /\ model_cache # EmptyDict
    /\ model_cache' = EmptyDict
    /\ UNCHANGED <<models, history_cache, files, meta_files, trains, pc, loc>>

ForecastStep(t, P) ==
    \/ ForecastRequest(t, P)
    \/ ForecastLoad(t)
    \/ ForecastPredict(t)
    \/ ClearCache(t)

-----------------------------------------------------------------------------
(* main.py: the universal prediction endpoint *)

\* the last row, in request order, that carries date d
LastRowOn(sales, d) ==
    sales[CHOOSE i \in 1..Len(sales) :
              /\ sales[i].date = d
              /\ \A j \in 1..Len(sales) : sales[j].date = d => j <= i]

\* a row whose date parsed (dropna on the coerced dates)
HasDate(row) == row.date # NaT

\* predict_universal, lines 1829-1842: drop the rows whose date does not
\* parse, sort by date, one row per date (drop_duplicates keep="last"), the
\* most recent 365 rows
UniversalFrame(sales) ==
    LET valid == SelectSeq(sales, HasDate)
        dates == SortedDates(valid)
    IN  TailN([i \in 1..Len(dates) |->
                  Row(dates[i], Cell(LastRowOn(valid, dates[i]), "quantity"))], 365)

\* the frame predict_universal makes of each request body of the model
UniversalFrames == [name \in SalesInputs |-> UniversalFrame(SalesData(name))]

\* a fallback that gives up
FallbackPredictionsNone(df, days) == <<>>

\* _generate_fallback_predictions, lines 1932-1962, 1977 and 1996-2061: nothing
\* for an empty frame, else one point per forecast day after the last date of
\* the frame, labelled with the confidence of the data tier; the quantities of
\* the points are not modelled here
FallbackPredictions(df, days) ==
    IF df = <<>> THEN <<>>
    ELSE LET data_len == Len(df)
             confidence == IF data_len >= 60 THEN "HIGH"
                           ELSE IF data_len >= 14 THEN "MEDIUM"
                           ELSE "LOW"
             last_date == MaxDate(df)
         IN  [i \in 1..days |->
                 [date |-> IsoFormat(last_date + i), confidence |-> confidence]]

\* predict_universal, lines 1868-1882: the brain trained on the fly, for each
\* product id, request body and outcome of the fits
OnTheFlyBrains ==
    [p \in Products \cup {"universal"} |->
        [name \in SalesInputs |->
            [fit \in Fits |-> BrainTrain(UniversalFrames[name], p, fit)]]]

\* predict_universal, lines 1797-1882: parse the rows, load the product's model
\* from the first candidate that loads, else train a brain on the rows given
UniversalRequest(t, P, S) ==
    /\ pc[t] = "idle"
    /\ \E p \in P \cup {"universal"}, sales \in S,
          days \in {1, MaxDays}, fit \in Fits :
         LET l == [op |-> "universal", p |-> p, days |-> days, result |-> Idle]
             df == UniversalFrames[sales]
             loads == {i \in 1..Len(ModelCandidates) :
                          /\ p # "universal"
                          /\ BrainLoadModel(files[ModelCandidates[i]], p).success}
             brain == IF loads # {}
                      THEN BrainLoadModel(
                               files[ModelCandidates[CHOOSE i \in loads :
                                                        \A j \in loads : i <= j]], p).brain
                      ELSE OnTheFlyBrains[p][sales][fit]
         IN  IF Len(SalesData(sales)) < 3
             THEN /\ pc' = [pc EXCEPT ![t] = "done"]
                  /\ loc' = [loc EXCEPT ![t] =
                                [l EXCEPT !.result =
                                    Http(422, [error |-> "sales_data_min_items_3"])]]
             ELSE IF \/ "date" \notin Columns(SalesData(sales))
                     \/ "quantity" \notin Columns(SalesData(sales))
             THEN /\ pc' = [pc EXCEPT ![t] = "done"]
                  /\ loc' = [loc EXCEPT ![t] =
                                [l EXCEPT !.result =
                                    Http(400, [error |-> "date_and_quantity_required"])]]
             ELSE Goto(t, "universal_1885",
                       l @@ [df |-> df, brain |-> brain, model_loaded |-> loads # {}])
    /\ UNCHANGED <<models, history_cache, files, meta_files, model_cache, trains>>

\* predict_universal, lines 1884-1917: empty predictions are replaced by the
\* statistical fallback's
UniversalPredict(t) ==
    /\ pc[t] = "universal_1885"
    /\ \E empty \in BOOLEAN :
         LET predicted == BrainPredictNextDays(loc[t].brain, loc[t].days, empty)
             predictions == IF predicted = <<>>
                            THEN FallbackPredictions(loc[t].df, loc[t].days)
                            ELSE predicted
             r == Http(200,
                 [predictions |-> predictions,
                  model_type |-> IF loc[t].model_loaded THEN "trained" ELSE "on-the-fly",
                  data_points |-> Len(loc[t].df)])
         IN  /\ pc' = [pc EXCEPT ![t] = "done"]
             /\ loc' = [loc EXCEPT ![t] =
                           [loc[t] EXCEPT !.result = r] @@ [predicted |-> predicted]]
    /\ UNCHANGED <<models, history_cache, files, meta_files, model_cache, trains>>

UniversalStep(t, P, S) ==
    \/ UniversalRequest(t, P, S)
    \/ UniversalPredict(t)

-----------------------------------------------------------------------------
(* The service: request threads of the pool interleave statement by        *)
(* statement; nothing in the sources serialises them                       *)

\* the service process is restarted: what is in memory is lost, the files stay
Restart ==
    /\ \A t \in Threads : pc[t] = "idle"
    /\ models # EmptyDict
    /\ models' = EmptyDict
    /\ history_cache' = EmptyDict
    /\ model_cache' = EmptyDict
    /\ UNCHANGED <<files, meta_files, trains, pc, loc>>

\* one product: training, forecaster.predict and the forecast endpoint
Next ==
    \/ \E t \in TrainThreads : TrainStep(t, {"p1"}, SalesInputs, {FitCrossing})
    \/ \E t \in ReadThreads : PredictStep(t, {"p1"})
    \/ \E t \in ReadThreads : ForecastStep(t, {"p1"})
    \/ \E t \in Threads : Respond(t)
    \/ Restart

Spec == Init /\ [][Next]_vars

\* two products: training and forecaster.predict
NextProducts ==
    \/ \E t \in TrainThreads : TrainStep(t, Products, {"A", "Few"}, {FitCrossing})
    \/ \E t \in ReadThreads : PredictStep(t, Products)
    \/ \E t \in Threads : Respond(t)
    \/ Restart

SpecProducts == Init /\ [][NextProducts]_vars

\* one product: training, the forecast endpoint and the universal endpoint
NextEndpoints ==
    \/ \E t \in TrainThreads : TrainStep(t, {"p1"}, {"A", "B"}, {FitOrdered})
    \/ \E t \in ReadThreads : ForecastStep(t, {"p1"})
    \/ \E t \in ReadThreads :
           UniversalStep(t, {"p1"}, {"A", "Sparse", "Few", "NoQty", "BadDates"})
    \/ \E t \in Threads : Respond(t)

SpecEndpoints == Init /\ [][NextEndpoints]_vars

-----------------------------------------------------------------------------
(* models/ensemble.py: adaptive weights and the blended forecast.  Weights   *)
(* are in tenths, agreement scores given by the caller in hundredths; rule   *)
(* and ML quantities are whole units, blended quantities tenths of a unit.   *)
(* Date strings are the <<year, month, day>> they spell.                     *)

\* the first threshold taken inclusive
CalculateAdaptiveWeightsInclusive(data_quality_days, agreement_score) ==
    IF data_quality_days <= 60 THEN [rule |-> 7, ml |-> 3]
    ELSE IF data_quality_days > 90 /\ agreement_score >= 80
         THEN [rule |-> 3, ml |-> 7]
    ELSE [rule |-> 5, ml |-> 5]

\* calculate_adaptive_weights
CalculateAdaptiveWeights(data_quality_days, agreement_score) ==
    IF data_quality_days < 60 THEN [rule |-> 7, ml |-> 3]
    ELSE IF data_quality_days > 90 /\ agreement_score >= 80
         THEN [rule |-> 3, ml |-> 7]
    ELSE [rule |-> 5, ml |-> 5]

\* dict.get(key, default)
DictGet(d, k, default) == IF k \in DOMAIN d THEN d[k] ELSE default

\* sum of a list of numbers
SeqSum(values) ==
    LET f[i \in 0..Len(values)] == IF i = 0 THEN 0 ELSE f[i - 1] + values[i]
    IN  f[Len(values)]

\* the order of two zero-padded ISO date strings
DateStrLess(a, b) ==
    \/ a[1] < b[1]
    \/ a[1] = b[1] /\ a[2] < b[2]
    \/ a[1] = b[1] /\ a[2] = b[2] /\ a[3] < b[3]

\* _to_lookup: date string -> value of `key`, the last row of a date winning,
\* rows without a date skipped
ToLookup(preds, key) ==
    LET dated == {i \in 1..Len(preds) : "date" \in DOMAIN preds[i]}
    IN  [d \in {preds[i].date : i \in dated} |->
            LET last == CHOOSE i \in dated :
                            /\ preds[i].date = d
                            /\ \A j \in dated : preds[j].date = d => j <= i
            IN  DictGet(preds[last], key, 0)]

\* _confidence_from_width, value in tenths: ratio = width / denom against
\* 0.2 and 0.4
ConfidenceFromWidth(lower, upper, value) ==
    LET width == Max(upper - lower, 0)
        denom == Max(Abs(value), 10)
    IN  IF 50 * width < denom THEN "HIGH"
        ELSE IF 25 * width < denom THEN "MEDIUM"
        ELSE "LOW"

\* the dates of the rule-based source alone, sorted
AllDatesRuleOnly(rule_lookup, p50_lookup) ==
    LET D == DOMAIN rule_lookup
    IN  [i \in 1..Cardinality(D) |->
            CHOOSE d \in D : Cardinality({e \in D : DateStrLess(e, d)}) = i - 1]

\* ensemble_forecast, line 52: sorted(set(rule) | set(p50))
AllDates(rule_lookup, p50_lookup) ==
    LET D == (DOMAIN rule_lookup) \cup (DOMAIN p50_lookup)
    IN  [i \in 1..Cardinality(D) |->
            CHOOSE d \in D : Cardinality({e \in D : DateStrLess(e, d)}) = i - 1]

\* the trend read off the bare comparison of the two ends
OverallTrendPlain(predictions) ==
    LET first == predictions[1].predicted_quantity
        last == predictions[Len(predictions)].predicted_quantity
    IN  IF last > first THEN "INCREASING"
        ELSE IF last < first THEN "DECREASING"
        ELSE "STABLE"

\* ensemble_forecast, lines 90-94: last against first * 1.05 and first * 0.95
OverallTrend(predictions) ==
    LET first == predictions[1].predicted_quantity
        last == predictions[Len(predictions)].predicted_quantity
    IN  IF 20 * last > 21 * first THEN "INCREASING"
        ELSE IF 20 * last < 19 * first THEN "DECREASING"
        ELSE "STABLE"

\* np.mean of a list of fractions, as a fraction
MeanOfFractions(fracs) ==
    LET f[i \in 0..Len(fracs)] ==
            IF i = 0 THEN [num |-> 0, den |-> 1]
            ELSE [num |-> f[i - 1].num * fracs[i].den + fracs[i].num * f[i - 1].den,
                  den |-> f[i - 1].den * fracs[i].den]
    IN  [num |-> f[Len(fracs)].num, den |-> f[Len(fracs)].den * Len(fracs)]

\* ensemble_forecast, lines 57-84: one day of the loop.  The agreement of the
\* day is the fraction num / den
EnsembleDay(date, rule_lookup, p10_lookup, p50_lookup, p90_lookup, weights) ==
    LET rule_val == DictGet(rule_lookup, date, 0)
        p10 == DictGet(p10_lookup, date, rule_val)
        p50 == DictGet(p50_lookup, date, rule_val)
        p90 == DictGet(p90_lookup, date, Max(p50, rule_val))
        ensemble_qty == DictGet(weights, "rule", 5) * rule_val
                        + DictGet(weights, "ml", 5) * p50
        diff == Abs(rule_val - p50)
        den == Max(p50, 1)
        conf == ConfidenceFromWidth(p10, p90, ensemble_qty)
    IN  [agreement |-> [num |-> den - Min(diff, den), den |-> den],
         prediction |->
            [date |-> date, rule_based |-> rule_val,
             ml_p10 |-> p10, ml_p50 |-> p50, ml_p90 |-> p90,
             predicted_quantity |-> ensemble_qty, forecast |-> ensemble_qty,
             lower_bound |-> Min(10 * p10, ensemble_qty),
             upper_bound |-> Max(10 * p90, ensemble_qty),
             confidence |-> conf]]

\* ensemble_forecast: the dict returned and the list agreement_scores
EnsembleForecast(rule_pred, ml_p10, ml_p50, ml_p90, weights) ==
    LET rule_lookup == ToLookup(rule_pred, "predicted_quantity")
        p10_lookup == ToLookup(ml_p10, "lower_bound")
        p50_lookup == ToLookup(ml_p50, "predicted_quantity")
        p90_lookup == ToLookup(ml_p90, "upper_bound")
        all_dates == AllDates(rule_lookup, p50_lookup)
        days == [i \in 1..Len(all_dates) |->
                    EnsembleDay(all_dates[i], rule_lookup, p10_lookup,
                                p50_lookup, p90_lookup, weights)]
        predictions == [i \in 1..Len(days) |-> days[i].prediction]
        agreement_scores == [i \in 1..Len(days) |-> days[i].agreement]
        \* ten times the mean of 1.0 / 0.6 / 0.3, times the number of days
        conf_sum == SeqSum([i \in 1..Len(days) |->
                        IF predictions[i].confidence = "HIGH" THEN 10
                        ELSE IF predictions[i].confidence = "MEDIUM" THEN 6
                        ELSE 3])
    IN  IF predictions = <<>>
        THEN [agreement_scores |-> agreement_scores,
              returned |-> [predictions |-> <<>>,
                            agreement_score |-> [num |-> 0, den |-> 1],
                            trend |-> "STABLE"]]
        ELSE [agreement_scores |-> agreement_scores,
              returned |-> [predictions |-> predictions,
                            agreement_score |-> MeanOfFractions(agreement_scores),
                            trend |-> OverallTrend(predictions),
                            confidence |->
                                IF conf_sum >= 8 * Len(days) THEN "HIGH"
                                ELSE IF 2 * conf_sum >= 11 * Len(days) THEN "MEDIUM"
                                ELSE "LOW"]]

-----------------------------------------------------------------------------
(* models/ensemble.py: generate_recommendations.  Forecast values are whole  *)
(* units; int() truncates products that are never negative.                  *)

\* forecast_values.index(max(forecast_values)): 0-based index of the first
\* maximum
PeakIndex(forecast_values) ==
    LET n == Len(forecast_values)
        i == CHOOSE k \in 1..n :
                 /\ \A j \in 1..n : forecast_values[j] <= forecast_values[k]
                 /\ \A j \in 1..(k - 1) : forecast_values[j] < forecast_values[k]
    IN  i - 1

\* a peak anywhere before the last day
IsPeakWithDeclineLate(forecast_values) ==
    LET peak_index == PeakIndex(forecast_values)
        peak_value == forecast_values[peak_index + 1]
    IN  /\ peak_index < Len(forecast_values) - 1
        /\ 4 * forecast_values[Len(forecast_values)] < 3 * peak_value

\* generate_recommendations, lines 130-137: is_peak_with_decline
IsPeakWithDecline(forecast_values) ==
    LET peak_index == PeakIndex(forecast_values)
        peak_value == forecast_values[peak_index + 1]
    IN  /\ peak_index < Len(forecast_values) - 2
        /\ 4 * forecast_values[Len(forecast_values)] < 3 * peak_value

\* generate_recommendations, line 126: trend_direction
TrendDirection(forecast_values) ==
    LET first == forecast_values[1]
        last == forecast_values[Len(forecast_values)]
    IN  IF last > first THEN "INCREASING"
        ELSE IF last < first THEN "DECREASING"
        ELSE "STABLE"

\* the chain with the peak rule tried first
RuleChainPeakFirst(viral, peak, declining, stable) ==
    IF peak THEN "PEAK_STRATEGY"
    ELSE IF viral THEN "SCALE_UP"
    ELSE IF declining THEN "INTERVENTION"
    ELSE IF stable THEN "OPTIMIZE"
    ELSE "STANDARD"

\* generate_recommendations, lines 140, 160, 221, 240, 259: the if/elif chain
RuleChain(viral, peak, declining, stable) ==
    IF viral THEN "SCALE_UP"
    ELSE IF peak THEN "PEAK_STRATEGY"
    ELSE IF declining THEN "INTERVENTION"
    ELSE IF stable THEN "OPTIMIZE"
    ELSE "STANDARD"

\* generate_recommendations, lines 277-278: the stable sort on
\* priority_order.get(priority, 99)
SortedByPriority(recs) ==
    LET key(i) == CASE recs[i].priority = "URGENT" -> 0
                    [] recs[i].priority = "HIGH" -> 1
                    [] recs[i].priority = "PENTING" -> 2
                    [] recs[i].priority = "MEDIUM" -> 3
                    [] recs[i].priority = "RENDAH" -> 4
                    [] OTHER -> 99
        pos(i) == Cardinality({j \in 1..Len(recs) :
                      key(j) < key(i) \/ (key(j) = key(i) /\ j < i)}) + 1
    IN  [k \in 1..Len(recs) |-> recs[CHOOSE i \in 1..Len(recs) : pos(i) = k]]

\* generate_recommendations, lines 161-218: the PEAK_STRATEGY recommendation
PeakStrategy(ensemble, forecast_values, total_forecast_7d) ==
    LET peak_index == PeakIndex(forecast_values)
        before_peak == SubSeq(forecast_values, 1, peak_index + 1)
        after_peak == SubSeq(forecast_values, peak_index + 2, Len(forecast_values))
        stock_before_peak == (SeqSum(before_peak) * 12) \div 10
        stock_after_peak == SeqSum(after_peak)
        total_smart == stock_before_peak + stock_after_peak
        total_naive == (total_forecast_7d * 13) \div 10
        savings == total_naive - total_smart
    IN  [type |-> "PEAK_STRATEGY", priority |-> "HIGH",
         phases |-> <<[stock_needed |-> stock_before_peak,
                       daily_avg |-> stock_before_peak \div Len(before_peak),
                       days |-> [i \in 1..(peak_index + 1) |-> i]],
                      [stock_needed |-> stock_after_peak,
                       daily_avg |-> stock_after_peak \div Len(after_peak),
                       days |-> [i \in 1..(6 - peak_index) |-> peak_index + 1 + i]]>>,
         savings |-> [amount |-> savings, total_smart |-> total_smart,
                      total_naive |-> total_naive],
         peak_info |-> [date |-> ensemble[peak_index + 1].date,
                        quantity |-> forecast_values[peak_index + 1],
                        index |-> peak_index + 1]]

\* generate_recommendations: the list returned, with the locals
\* trend_direction and is_peak_with_decline
GenerateRecommendations(realtime_burst, realtime_momentum, ml_forecast, ensemble) ==
    IF ensemble = <<>>
    THEN [returned |-> <<>>]
    ELSE
    LET forecast_values == [i \in 1..Len(ensemble) |-> ensemble[i].forecast]
        trend_direction == TrendDirection(forecast_values)
        total_forecast_7d == SeqSum(forecast_values)
        is_peak_with_decline == IsPeakWithDecline(forecast_values)
        type == RuleChain(
            /\ DictGet(realtime_burst, "severity", "None") = "CRITICAL"
            /\ trend_direction = "INCREASING"
            /\ ensemble[1].confidence = "HIGH",
            is_peak_with_decline,
            /\ DictGet(realtime_momentum, "status", "None") = "DECLINING"
            /\ trend_direction = "DECREASING",
            /\ DictGet(realtime_momentum, "status", "None") = "STABLE"
            /\ ensemble[1].confidence = "HIGH")
        recommendations ==
            CASE type = "SCALE_UP" ->
                   <<[type |-> "SCALE_UP", priority |-> "URGENT",
                      stock |-> (total_forecast_7d * 13) \div 10]>>
              [] type = "PEAK_STRATEGY" ->
                   <<PeakStrategy(ensemble, forecast_values, total_forecast_7d)>>
              [] type = "INTERVENTION" ->
                   <<[type |-> "INTERVENTION", priority |-> "PENTING"]>>
              [] type = "OPTIMIZE" ->
                   <<[type |-> "OPTIMIZE", priority |-> "RENDAH",
                      buffer_stock |-> (total_forecast_7d * 3) \div 7]>>
              [] type = "STANDARD" ->
                   <<[type |-> "STANDARD", priority |-> "MEDIUM",
                      total |-> total_forecast_7d,
                      avg_daily |-> total_forecast_7d \div 7,
                      trend |-> trend_direction]>>
    IN  [returned |-> SortedByPriority(recommendations),
         trend_direction |-> trend_direction,
         is_peak_with_decline |-> is_peak_with_decline]

-----------------------------------------------------------------------------
(* The functions of models/ensemble.py, each called once on arguments that   *)
(* are fixed when the behaviour starts                                       *)

\* dates in the two forecast sources handed to ensemble_forecast
MaxForecastDates == 3
\* days in the blended forecast handed to generate_recommendations
MaxForecast == 4

\* the state before a call c of a function of the service on a request thread
InitCall(C) ==
    /\ models = EmptyDict
    /\ history_cache = EmptyDict
    /\ files = [d \in {ModelCandidates[i] : i \in 1..Len(ModelCandidates)} |-> EmptyDict]
    /\ meta_files = EmptyDict
    /\ model_cache = EmptyDict
    /\ trains = 0
    /\ pc = [t \in Threads |-> IF t \in ReadThreads THEN "call" ELSE "idle"]
    /\ \E c \in C : loc = [t \in Threads |-> IF t \in ReadThreads THEN c ELSE Idle]

\* the call of thread t returns r, its local variables at the return being l
Return(t, r, l) ==
    /\ pc' = [pc EXCEPT ![t] = "done"]
    /\ loc' = [loc EXCEPT ![t] = [loc[t] EXCEPT !.result = Returned(r)] @@ l]
    /\ UNCHANGED <<models, history_cache, files, meta_files, model_cache, trains>>

\* the k-th forecast date: 2024-01-31, 2024-02-01, ...
ForecastDate(k) == IsoFormat(29 + k)

\* the rows row[k] of some days k, as a list with the latest day first
NewestFirst(row) ==
    [i \in 1..Cardinality(DOMAIN row) |->
        row[CHOOSE k \in DOMAIN row :
                Cardinality({j \in DOMAIN row : j > k}) = i - 1]]

\* a rule-based forecast: predicted_quantity on some of the dates
RulePreds ==
    {NewestFirst([k \in DOMAIN g |->
                     [date |-> ForecastDate(k), predicted_quantity |-> g[k]]]) :
        g \in UNION {[K -> {19, 20, 21}] : K \in SUBSET (1..MaxForecastDates)}}

\* an ML forecast (the list predict returns) on some of the dates, its
\* <<p10, p50, p90>> the same every day
MLPreds ==
    {NewestFirst([k \in K |-> [date |-> ForecastDate(k), lower_bound |-> q[1],
                                predicted_quantity |-> q[2], upper_bound |-> q[3]]]) :
        K \in SUBSET (1..MaxForecastDates), q \in {<<18, 20, 22>>, <<0, 0, 1>>}}

\* agreement scores are in hundredths
WeightCalls ==
    {[op |-> "calculate_adaptive_weights", data_quality_days |-> d,
      agreement_score |-> a, result |-> Idle] :
        d \in {0, 59, 60, 61, 90, 91, 120}, a \in {0, 79, 80, 81, 90, 100}}

EnsembleCalls ==
    {[op |-> "ensemble_forecast", rule_pred |-> r, ml |-> m, weights |-> w,
      result |-> Idle] :
        r \in RulePreds, m \in MLPreds,
        w \in {CalculateAdaptiveWeights(d, 90) : d \in {59, 60, 91}}}

\* a blended forecast of n days with the given values, every day of confidence
\* conf
Blended(values, conf) ==
    [i \in 1..Len(values) |->
        [date |-> ForecastDate(i), forecast |-> values[i],
         predicted_quantity |-> values[i], confidence |-> conf]]

-----------------------------------------------------------------------------
(* main.py: the signal detectors _calculate_momentum and _detect_burst.      *)
(* Their frames are what predict_universal hands them: one row per date,     *)
(* ascending, dates parsed.  Quantities of these frames are in tenths of a   *)
(* unit, so the floor 0.1 of the deviation is 1.                             *)

\* longest frame handed to a detector
MaxSignalRows == 15

\* the status with the thresholds taken inclusive
MomentumStatusInclusive(num, den) ==
    IF 100 * num >= 115 * den THEN "TRENDING_UP"
    ELSE IF 100 * num >= 105 * den THEN "GROWING"
    ELSE IF 100 * num <= 85 * den THEN "DECLINING"
    ELSE IF 100 * num <= 95 * den THEN "FALLING"
    ELSE "STABLE"

\* _calculate_momentum, lines 2076-2086: the status of ratio = num / den,
\* den > 0
MomentumStatus(num, den) ==
    IF 100 * num > 115 * den THEN "TRENDING_UP"
    ELSE IF 100 * num > 105 * den THEN "GROWING"
    ELSE IF 100 * num < 85 * den THEN "DECLINING"
    ELSE IF 100 * num < 95 * den THEN "FALLING"
    ELSE "STABLE"

\* _calculate_momentum: the dict returned (combined in thousandths, to the
\* nearest) and the local ratio as the fraction num / den; the two window
\* means are sums over 7, so their quotient is the quotient of the sums
CalculateMomentum(df) ==
    IF Len(df) < 7
    THEN [returned |-> [combined |-> 1000, status |-> "STABLE"]]
    ELSE LET quantity == [i \in 1..Len(df) |-> df[i].quantity]
             recent_7 == SeqSum(TailN(quantity, 7))
             previous_7 == IF Len(df) >= 14
                           THEN SeqSum(SubSeq(TailN(quantity, 14), 1, 7))
                           ELSE recent_7
             ratio == IF previous_7 > 0
                      THEN [num |-> recent_7, den |-> previous_7]
                      ELSE [num |-> 1, den |-> 1]
         IN  [returned |->
                 [combined |-> (2000 * ratio.num + ratio.den) \div (2 * ratio.den),
                  status |-> MomentumStatus(ratio.num, ratio.den)],
              ratio |-> ratio]

\* the level with the thresholds taken inclusive
BurstLevelInclusive(num, den_squared) ==
    IF num > 0 /\ num * num >= 9 * den_squared THEN "CRITICAL"
    ELSE IF num > 0 /\ num * num >= 4 * den_squared THEN "HIGH"
    ELSE IF num > 0 /\ 4 * num * num >= 9 * den_squared THEN "MEDIUM"
    ELSE "NORMAL"

\* _detect_burst, lines 2107-2115: the level of z = num / sqrt(den_squared)
\* against 3, 2 and 1.5
BurstLevel(num, den_squared) ==
    IF num > 0 /\ num * num > 9 * den_squared THEN "CRITICAL"
    ELSE IF num > 0 /\ num * num > 4 * den_squared THEN "HIGH"
    ELSE IF num > 0 /\ 4 * num * num > 9 * den_squared THEN "MEDIUM"
    ELSE "NORMAL"

\* every burst a spike
BurstTypeSpike(level, last_date) ==
    IF level # "NORMAL" THEN "SPIKE" ELSE "NORMAL"

\* _detect_burst, lines 2117-2123: the type, from the weekday of the latest
\* date
BurstType(level, last_date) ==
    IF level # "NORMAL"
    THEN IF DayOfWeek(last_date) \in {5, 6} THEN "SEASONAL" ELSE "SPIKE"
    ELSE "NORMAL"

\* _detect_burst: with n baseline values of sum s and sum of squares ss, the
\* mean is s / n and the population deviation sqrt(n * ss - s * s) / n, so
\* z = (n * latest - s) / sqrt(max(n * ss - s * s, n * n)); the score is z
\* itself, not rounded
DetectBurst(df) ==
    IF Len(df) < 5
    THEN [score |-> [num |-> 0, den_squared |-> 1], level |-> "NORMAL",
          type |-> "NORMAL"]
    ELSE LET quantities == [i \in 1..Len(df) |-> df[i].quantity]
             baseline == SubSeq(quantities, 1, Len(df) - 1)
             latest == quantities[Len(df)]
             n == Len(baseline)
             s == SeqSum(baseline)
             ss == SeqSum([i \in 1..n |-> baseline[i] * baseline[i]])
             z_score == [num |-> n * latest - s,
                         den_squared |-> Max(n * ss - s * s, n * n)]
             level == BurstLevel(z_score.num, z_score.den_squared)
         IN  [score |-> z_score, level |-> level,
              type |-> BurstType(level, MaxDate(df))]

\* a frame of consecutive days ending on `last`, quantity[j] the quantity of
\* the row j days before the end
SignalFrame(last, quantity) ==
    LET n == Cardinality(DOMAIN quantity)
    IN  [i \in 1..n |-> Row(last - (n - i), quantity[n - i])]

\* frames ending on a Friday, Saturday, Sunday or Monday: a week at one level
\* after a week at another (older rows far off), and a latest value after
\* an even or an alternating baseline
SignalFrames ==
    {SignalFrame(last, [j \in 0..(n - 1) |->
                           IF j <= 6 THEN recent
                           ELSE IF j <= 13 THEN previous ELSE 1000]) :
        n \in 0..MaxSignalRows, last \in 32..35, previous \in {0, 100},
        recent \in {0, 70, 85, 95, 100, 105, 115, 120}}
    \cup
    {SignalFrame(last, [j \in 0..(n - 1) |->
                           IF j = 0 THEN b[3]
                           ELSE IF j % 2 = 1 THEN b[1] ELSE b[2]]) :
        n \in 0..MaxSignalRows, last \in 32..35,
        b \in {<<100, 100, latest>> : latest \in {90, 100, 102, 104}}
              \cup {<<0, 40, latest>> : latest \in {50, 55, 60, 70, 80, 90}}}

CallCalculateMomentum(t) ==
    /\ pc[t] = "call"
    /\ loc[t].op = "_calculate_momentum"
    /\ LET r == CalculateMomentum(loc[t].df)
       IN  Return(t, r.returned, [x \in (DOMAIN r) \ {"returned"} |-> r[x]])

CallDetectBurst(t) ==
    /\ pc[t] = "call"
    /\ loc[t].op = "_detect_burst"
    /\ Return(t, DetectBurst(loc[t].df), EmptyDict)

NextSignals ==
    \/ \E t \in ReadThreads : CallCalculateMomentum(t)
    \/ \E t \in ReadThreads : CallDetectBurst(t)

SpecSignals ==
    /\ InitCall({[op |-> f, df |-> df, result |-> Idle] :
                    f \in {"_calculate_momentum", "_detect_burst"},
                    df \in SignalFrames})
    /\ [][NextSignals]_vars

-----------------------------------------------------------------------------
(* The calls of models/ensemble.py.  A recommendation call takes its burst   *)
(* signal from its caller or as _detect_burst returns it.                    *)

\* forecasts of the default horizon of 7 days and of longer ones (the hybrid
\* request takes days = 1..30), with one peak day, and two-day forecasts whose
\* last value is within 6% of the first
LongForecasts ==
    {[i \in 1..n |-> IF i = k THEN 10 ELSE 6] : n \in {7, 8, 9}, k \in 1..9}
    \cup {<<100, last>> : last \in {94, 95, 98, 100, 102, 105, 106}}

\* burst signals with a severity and the one _detect_burst returns for a
\* week alternating between 0 and 4.0 that ends on 9.0 (a score, a level and
\* a type); momentum signals by status
RecommendationCalls ==
    {[op |-> "generate_recommendations", realtime_burst |-> b,
      realtime_momentum |-> [status |-> m], ensemble |-> Blended(v, c),
      result |-> Idle] :
        b \in {[severity |-> "CRITICAL"], [severity |-> "NORMAL"],
               DetectBurst(SignalFrame(32, [j \in 0..6 |->
                   IF j = 0 THEN 90 ELSE IF j % 2 = 1 THEN 0 ELSE 40]))},
        m \in {"DECLINING", "STABLE", "GROWING"}, c \in {"HIGH", "LOW"},
        v \in UNION {[1..n -> {0, 6, 8, 10}] : n \in 0..MaxForecast}
                  \cup LongForecasts}

CallCalculateAdaptiveWeights(t) ==
    /\ pc[t] = "call"
    /\ loc[t].op = "calculate_adaptive_weights"
    /\ Return(t, CalculateAdaptiveWeights(loc[t].data_quality_days,
                                          loc[t].agreement_score), EmptyDict)

CallEnsembleForecast(t) ==
    /\ pc[t] = "call"
    /\ loc[t].op = "ensemble_forecast"
    /\ LET r == EnsembleForecast(loc[t].rule_pred, loc[t].ml, loc[t].ml,
                                 loc[t].ml, loc[t].weights)
       IN  Return(t, r.returned, [agreement_scores |-> r.agreement_scores])

CallGenerateRecommendations(t) ==
    /\ pc[t] = "call"
    /\ loc[t].op = "generate_recommendations"
    /\ LET r == GenerateRecommendations(loc[t].realtime_burst,
                     loc[t].realtime_momentum, <<>>, loc[t].ensemble)
       IN  Return(t, r.returned,
                  [x \in (DOMAIN r) \ {"returned"} |-> r[x]])

NextEnsemble ==
    \/ \E t \in ReadThreads : CallCalculateAdaptiveWeights(t)
    \/ \E t \in ReadThreads : CallEnsembleForecast(t)
    \/ \E t \in ReadThreads : CallGenerateRecommendations(t)

SpecEnsemble ==
    /\ InitCall(WeightCalls \cup EnsembleCalls \cup RecommendationCalls)
    /\ [][NextEnsemble]_vars

-----------------------------------------------------------------------------
(* OptimalXGBoostForecaster.create_features: the whole feature table.  Lag   *)
(* and rolling cells are exact fractions in lowest terms, NaN the fraction   *)
(* of denominator 0; rolling_std_7 holds the sample variance, of which the   *)
(* deviation is the root.                                                    *)

\* longest frame handed to create_features
MaxFeatureRows == 16

RECURSIVE Gcd(_, _)
Gcd(a, b) == IF b = 0 THEN a ELSE Gcd(b, a % b)

NaN == [num |-> 0, den |-> 0]

\* num / den in lowest terms, den > 0
Number(num, den) ==
    [num |-> num \div Gcd(Abs(num), den), den |-> den \div Gcd(Abs(num), den)]

\* a column left as it is
FillNaNone(col) == col

\* create_features, lines 102-104, on one column:
\* fillna(method="bfill").fillna(method="ffill").fillna(0)
FillNa(col) ==
    LET n == Len(col)
        bfill == [i \in 1..n |->
                     IF \E j \in i..n : col[j] # NaN
                     THEN col[CHOOSE j \in i..n :
                                 col[j] # NaN /\ \A k \in i..(j - 1) : col[k] = NaN]
                     ELSE NaN]
        ffill == [i \in 1..n |->
                     IF \E j \in 1..i : bfill[j] # NaN
                     THEN bfill[CHOOSE j \in 1..i :
                                   bfill[j] # NaN /\ \A k \in (j + 1)..i : bfill[k] = NaN]
                     ELSE NaN]
    IN  [i \in 1..n |-> IF ffill[i] = NaN THEN Number(0, 1) ELSE ffill[i]]

\* create_features: the feature columns of every row of the frame
CreateFeatures(df) ==
    LET dates == SortedDates(df)
        n == Len(dates)
        quantity == [i \in 1..n |-> QtyOn(df, dates[i], 0)]
        \* quantity.shift(k) at row i (from 1)
        shift(k, i) == IF i - k >= 1 THEN Number(quantity[i - k], 1) ELSE NaN
        \* shifted_qty.rolling(window, min_periods=1) at row i: the quantities
        \* of the rows i - window .. i - 1 that exist
        rolling(window, i) ==
            IF i = 1 THEN <<>> ELSE SubSeq(quantity, Max(1, i - window), i - 1)
        \* .mean(): NaN on no observation
        mean(x) == IF Len(x) < 1 THEN NaN ELSE Number(SeqSum(x), Len(x))
        \* .std() squared: NaN under two observations (ddof = 1)
        var(x) ==
            IF Len(x) < 2 THEN NaN
            ELSE Number(Len(x) * SeqSum([i \in 1..Len(x) |-> x[i] * x[i]])
                            - SeqSum(x) * SeqSum(x),
                        Len(x) * (Len(x) - 1))
        minus(a, b) ==
            IF a = NaN \/ b = NaN THEN NaN
            ELSE Number(a.num * b.den - b.num * a.den, a.den * b.den)
        column(cell(_)) == FillNa([i \in 1..n |-> cell(i)])
        sales_lag_1 == column(LAMBDA i : shift(1, i))
        sales_lag_7 == column(LAMBDA i : shift(7, i))
        sales_lag_14 == column(LAMBDA i : shift(14, i))
        rolling_mean_7 == column(LAMBDA i : mean(rolling(7, i)))
        rolling_mean_14 == column(LAMBDA i : mean(rolling(14, i)))
        rolling_std_7 == column(LAMBDA i : var(rolling(7, i)))
        trend == column(LAMBDA i : minus(mean(rolling(7, i)), mean(rolling(14, i))))
    IN  [i \in 1..n |->
            LET day_of_month == IsoFormat(dates[i])[3]
            IN  [date |-> dates[i],
                 day_of_week |-> DayOfWeek(dates[i]),
                 day_of_month |-> day_of_month,
                 week_of_month |-> ((day_of_month - 1) \div 7) + 1,
                 is_weekend |-> IF DayOfWeek(dates[i]) \in {5, 6} THEN 1 ELSE 0,
                 is_payday |-> IF day_of_month \in (25..31) \cup (1..5) THEN 1 ELSE 0,
                 sales_lag_1 |-> sales_lag_1[i],
                 sales_lag_7 |-> sales_lag_7[i],
                 sales_lag_14 |-> sales_lag_14[i],
                 rolling_mean_7 |-> rolling_mean_7[i],
                 rolling_mean_14 |-> rolling_mean_14[i],
                 rolling_std_7 |-> rolling_std_7[i],
                 trend |-> trend[i]]]

\* create_features on a dense frame and on the frame that differs from it in
\* the quantity of row t (from 0) alone; the call returns row t of both tables,
\* the dates of the rows of the first table being kept as a local
CallCreateFeatures(t) ==
    /\ pc[t] = "call"
    /\ loc[t].op = "create_features"
    /\ LET df == loc[t].df
           other == [i \in 1..Len(df) |->
                        IF i = loc[t].t + 1 THEN Row(df[i].date, loc[t].quantity)
                        ELSE df[i]]
       IN  \E data \in {CreateFeatures(df)} :
               Return(t, [row |-> data[loc[t].t + 1],
                          other_row |-> CreateFeatures(other)[loc[t].t + 1]],
                      [dates |-> [i \in 1..Len(data) |-> data[i].date]])

\* the frames: 2024-01-01 onwards, one row a day; the row changed and the
\* quantity it is changed to (the frame's own quantities are 1..5)
FeatureCalls ==
    UNION {{[op |-> "create_features",
             df |-> [i \in 1..n |-> Row(i - 1, 1 + ((3 * i) % 5))],
             t |-> t, quantity |-> q, result |-> Idle] :
                t \in 0..(n - 1), q \in {7, 20}} : n \in 1..MaxFeatureRows}

NextFeatures == \E t \in ReadThreads : CallCreateFeatures(t)

SpecFeatures == InitCall(FeatureCalls) /\ [][NextFeatures]_vars

-----------------------------------------------------------------------------
(* The two places where the rows a caller sends become a frame:              *)
(* _normalize_dataframe (train) and the parse of predict_universal           *)

\* rows in a request body handed to either
MaxIngestRows == 4

\* request bodies over two dates, in any order, dates repeated or not
IngestCalls ==
    {[op |-> f, sales |-> sales, result |-> Idle] :
        f \in {"_normalize_dataframe", "predict_universal"},
        sales \in UNION {[1..n -> {Row(d, q) : d \in 0..1, q \in 1..3}] :
                            n \in 0..MaxIngestRows}}

\* train, line 119: df = self._normalize_dataframe(sales_data)
CallNormalizeDataframe(t) ==
    /\ pc[t] = "call"
    /\ loc[t].op = "_normalize_dataframe"
    /\ LET n == NormalizeDataframe(loc[t].sales)
       IN  IF n.raised
           THEN /\ Finish(t, Raised(n.error))
                /\ UNCHANGED <<models, history_cache, files, meta_files,
                               model_cache, trains>>
           ELSE Return(t, n.df, EmptyDict)

\* predict_universal, lines 1829-1842, on a body of at least 3 rows (the
\* request model's min_items)
CallUniversalParse(t) ==
    /\ pc[t] = "call"
    /\ loc[t].op = "predict_universal"
    /\ Len(loc[t].sales) >= 3
    /\ Return(t, UniversalFrame(loc[t].sales), EmptyDict)

NextIngest ==
    \/ \E t \in ReadThreads : CallNormalizeDataframe(t)
    \/ \E t \in ReadThreads : CallUniversalParse(t)

SpecIngest == InitCall(IngestCalls) /\ [][NextIngest]_vars

-----------------------------------------------------------------------------
(* main.py: _generate_fallback_predictions, the statistical fallback, with   *)
(* the quantities of its points.  Every factor is an exact fraction          *)
(* [num, den]; variation_scale is kept in tenths, trend_sensitivity and the  *)
(* day-of-week factors in hundredths.  Products of the factors exceed the    *)
(* machine integers, so they are held as numbers of ten base-1000 digits,    *)
(* least significant first.                                                  *)

\* longest horizon asked of the fallback
MaxFallbackDays == 7

\* a machine integer n >= 0 in base-1000 digits
Big(n) == [k \in 1..10 |-> IF k > 4 THEN 0 ELSE (n \div (1000 ^ (k - 1))) % 1000]

\* the digits from place k on of the digit sums conv, the carry brought in
RECURSIVE BigCarry(_, _, _)
BigCarry(conv, k, carry) ==
    IF k > 10 THEN <<>>
    ELSE <<(conv[k] + carry) % 1000>>
         \o BigCarry(conv, k + 1, (conv[k] + carry) \div 1000)

\* a * b of two such numbers
BigTimes(a, b) ==
    BigCarry([k \in 1..10 |-> SeqSum([i \in 1..k |-> a[i] * b[k + 1 - i]])], 1, 0)

\* a < b
BigLess(a, b) ==
    \E k \in 1..10 : a[k] < b[k] /\ \A j \in (k + 1)..10 : a[j] = b[j]

\* lines 1938-1962: the tier of the frame's length
FallbackTier(data_len) ==
    IF data_len >= 60
    THEN [variation_scale |-> 10, trend_sensitivity |-> 15,
          dow_clamp |-> <<80, 125>>, confidence |-> "HIGH"]
    ELSE IF data_len >= 30
    THEN [variation_scale |-> 8, trend_sensitivity |-> 12,
          dow_clamp |-> <<85, 120>>, confidence |-> "MEDIUM"]
    ELSE IF data_len >= 14
    THEN [variation_scale |-> 6, trend_sensitivity |-> 8,
          dow_clamp |-> <<88, 115>>, confidence |-> "MEDIUM"]
    ELSE IF data_len >= 7
    THEN [variation_scale |-> 4, trend_sensitivity |-> 5,
          dow_clamp |-> <<92, 110>>, confidence |-> "LOW"]
    ELSE [variation_scale |-> 2, trend_sensitivity |-> 2,
          dow_clamp |-> <<95, 105>>, confidence |-> "LOW"]

\* line 1981: default_dow, 0 = Monday
DefaultDow == <<97, 93, 94, 96, 101, 108, 111>>

\* lines 1984-1991: learned_dow, the mean of each weekday of the frame over
\* the mean of the frame, clamped to dow_clamp; no entry under 7 rows, for a
\* frame whose mean is 0 and for a weekday the frame does not hold
LearnedDow(df, dow_clamp) ==
    LET total == SeqSum([i \in 1..Len(df) |-> df[i].quantity])
        on(w) == {i \in 1..Len(df) : DayOfWeek(df[i].date) = w}
        sum(w) == SeqSum([i \in 1..Len(df) |->
                             IF i \in on(w) THEN df[i].quantity ELSE 0])
    IN  IF Len(df) < 7 \/ total <= 0 THEN EmptyDict
        ELSE [w \in {x \in 0..6 : on(x) # {}} |->
                 LET num == sum(w) * Len(df)
                     den == Cardinality(on(w)) * total
                 IN  IF 100 * num < dow_clamp[1] * den THEN [num |-> dow_clamp[1], den |-> 100]
                     ELSE IF 100 * num > dow_clamp[2] * den THEN [num |-> dow_clamp[2], den |-> 100]
                     ELSE [num |-> num, den |-> den]]

\* lines 2002-2016: dow_factor
DowFactor(learned_dow, day_of_week, variation_scale) ==
    LET default_mult == DefaultDow[day_of_week + 1]
    IN  IF day_of_week \in DOMAIN learned_dow
        THEN LET learned_factor == learned_dow[day_of_week]
                 is_weekend == day_of_week \in {5, 6}
                 \* 0.7 - variation_scale * 0.4, in hundredths
                 blend_toward_default == 70 - 4 * variation_scale
             IN  IF is_weekend /\ 100 * learned_factor.num < default_mult * learned_factor.den
                 THEN [num |-> 100 * learned_factor.num * (100 - blend_toward_default)
                               + default_mult * blend_toward_default * learned_factor.den,
                       den |-> 10000 * learned_factor.den]
                 ELSE [num |-> 100 * learned_factor.num * variation_scale
                               + default_mult * (10 - variation_scale) * learned_factor.den,
                       den |-> 1000 * learned_factor.den]
        ELSE [num |-> default_mult, den |-> 100]

\* a prediction passed on as it is
SmoothTransitionNone(predicted, prev_pred, variation_scale) ==
    predicted @@ [clamped |-> FALSE]

\* lines 2040-2046: max_change = 0.15 + 0.15 * variation_scale; a prediction
\* (num and den in base 1000) beyond prev_pred * (1 +- max_change) becomes
\* prev_pred * (1 +- max_change * 0.8); prev_pred = 0 stands for None
SmoothTransition(predicted, prev_pred, variation_scale) ==
    LET max_change == 150 + 15 * variation_scale
        scaled == BigTimes(predicted.num, Big(1000))
        above == BigTimes(predicted.den, Big(prev_pred * (1000 + max_change)))
        below == BigTimes(predicted.den, Big(prev_pred * (1000 - max_change)))
        reduced == (max_change * 8) \div 10
    IN  IF prev_pred > 0 /\ BigLess(above, scaled)
        THEN [num |-> Big(prev_pred * (1000 + reduced)), den |-> Big(1000),
              clamped |-> TRUE]
        ELSE IF prev_pred > 0 /\ BigLess(scaled, below)
        THEN [num |-> Big(prev_pred * (1000 - reduced)), den |-> Big(1000),
              clamped |-> TRUE]
        ELSE [num |-> predicted.num, den |-> predicted.den, clamped |-> FALSE]

\* round(predicted), line 2049: the integer nearest to num / den, the even
\* one of two equally near; it lies in lo..hi
RoundHalfEven(predicted, lo, hi) ==
    CHOOSE k \in lo..hi :
        LET twice == BigTimes(predicted.num, Big(2))
            down == BigTimes(predicted.den, Big(Max(2 * k - 1, 0)))
            up == BigTimes(predicted.den, Big(2 * k + 1))
        IN  /\ BigLess(down, twice) \/ k = 0 \/ (down = twice /\ k % 2 = 0)
            /\ BigLess(twice, up) \/ (twice = up /\ k % 2 = 0)

\* round(predicted + sign * std), lines 2050-2051, for the integer predicted
\* and the std whose square is the fraction std_squared
RoundAround(predicted, sign, std_squared, widest) ==
    LET m == CHOOSE x \in 0..widest :
                 LET r == predicted + sign * x
                     inner == (2 * x - 1) * (2 * x - 1) * std_squared.den
                     outer == (2 * x + 1) * (2 * x + 1) * std_squared.den
                     four == 4 * std_squared.num
                 IN  /\ x = 0 \/ inner < four \/ (inner = four /\ r % 2 = 0)
                     /\ four < outer \/ (four = outer /\ r % 2 = 0)
    IN  predicted + sign * m

\* lines 1997-2061: the point of forecast day i after the previous point
\* prev_pred (0 on the first day), with the locals of the iteration
FallbackDay(ctx, i, prev_pred) ==
    LET pred_date == ctx.last_date + i
        day_of_week == DayOfWeek(pred_date)
        day_of_month == IsoFormat(pred_date)[3]
        month == IsoFormat(pred_date)[2]
        variation_scale == ctx.tier.variation_scale
        dow_factor == DowFactor(ctx.learned_dow, day_of_week, variation_scale)
        payday_factor ==
            IF day_of_month >= 25 \/ day_of_month <= 5
            THEN [num |-> 1000 + 8 * variation_scale, den |-> 1000]
            ELSE IF day_of_month >= 12 /\ day_of_month <= 18
            THEN [num |-> 1000 - 5 * variation_scale, den |-> 1000]
            ELSE [num |-> 1, den |-> 1]
        \* baseline + trend * i * trend_sensitivity, at least 1
        raised == ctx.baseline.num * ctx.trend.den * 100
                  + ctx.trend.num * i * ctx.tier.trend_sensitivity * ctx.baseline.den
        base_pred == IF raised < ctx.baseline.den * ctx.trend.den * 100
                     THEN [num |-> 1, den |-> 1]
                     ELSE [num |-> raised, den |-> ctx.baseline.den * ctx.trend.den * 100]
        date_seed == (day_of_month * 3 + month * 7 + day_of_week * 2) % 100
        \* 1 + ((date_seed - 50) / 100) * 0.05 * variation_scale
        variation == [num |-> 20000 + variation_scale * (date_seed - 50), den |-> 20000]
        predicted ==
            [num |-> BigTimes(BigTimes(Big(base_pred.num), Big(dow_factor.num)),
                              BigTimes(Big(payday_factor.num), Big(variation.num))),
             den |-> BigTimes(BigTimes(Big(base_pred.den), Big(dow_factor.den)),
                              BigTimes(Big(payday_factor.den), Big(variation.den)))]
        floor == base_pred.num \div base_pred.den
        lo == Min((floor * 70) \div 100, IF prev_pred > 0 THEN prev_pred ELSE floor)
        hi == Max(((floor + 1) * 140) \div 100 + 1, prev_pred)
    IN  \* the smoothed prediction and its rounding are computed once
        LET smoothed == SmoothTransition(predicted, prev_pred, variation_scale)
            rounded == Max(1, RoundHalfEven(smoothed, lo, hi))
        IN  [date |-> IsoFormat(pred_date),
             predicted_quantity |-> rounded,
             lower_bound |-> Max(0, RoundAround(rounded, 0 - 1, ctx.std_squared, ctx.widest)),
             upper_bound |-> RoundAround(rounded, 1, ctx.std_squared, ctx.widest),
             confidence |-> ctx.tier.confidence,
             day_of_week |-> day_of_week,
             dow_factor |-> dow_factor,
             clamped |-> smoothed.clamped]

\* lines 1996-2061: the loop over the forecast days
RECURSIVE FallbackLoop(_, _, _, _)
FallbackLoop(ctx, i, prev_pred, predictions) ==
    IF i > ctx.days THEN predictions
    ELSE LET point == CHOOSE x \in {FallbackDay(ctx, i, prev_pred)} : TRUE
         IN  FallbackLoop(ctx, i + 1, point.predicted_quantity,
                          Append(predictions, point))

\* _generate_fallback_predictions: the list returned (date, predicted_quantity,
\* lower_bound, upper_bound and confidence of each point), with the locals
\* learned_dow and, per point, day_of_week, dow_factor and whether the
\* smoothing replaced the prediction
GenerateFallbackPredictions(df, days) ==
    IF df = <<>> THEN [returned |-> <<>>, learned_dow |-> EmptyDict, locals |-> <<>>]
    ELSE
    LET data_len == Len(df)
        tier == FallbackTier(data_len)
        recent == TailN(df, Min(14, data_len))
        quantity == [i \in 1..Len(recent) |-> recent[i].quantity]
        sum == SeqSum(quantity)
        squares == SeqSum([i \in 1..Len(recent) |-> quantity[i] * quantity[i]])
        \* std squared: the sample variance, or max(baseline * 0.2, 1) squared
        std_squared ==
            IF Len(recent) > 1
            THEN [num |-> Len(recent) * squares - sum * sum,
                  den |-> Len(recent) * (Len(recent) - 1)]
            ELSE IF sum > 5 THEN [num |-> sum * sum, den |-> 25]
            ELSE [num |-> 1, den |-> 1]
        half == Len(recent) \div 2
        first_half == SeqSum(SubSeq(quantity, 1, half))
        second_half == SeqSum(SubSeq(quantity, Len(recent) - half + 1, Len(recent)))
        trend == IF Len(recent) >= 3 /\ first_half > 0
                 THEN [num |-> second_half - first_half, den |-> half * Len(recent)]
                 ELSE [num |-> 0, den |-> 1]
        ctx == [tier |-> tier, days |-> days, last_date |-> MaxDate(df),
                baseline |-> [num |-> sum, den |-> Len(recent)],
                trend |-> trend, std_squared |-> std_squared,
                widest |-> sum + 1,
                learned_dow |-> LearnedDow(df, tier.dow_clamp)]
        points == CHOOSE x \in {FallbackLoop(ctx, 1, 0, <<>>)} : TRUE
    IN  [returned |-> [k \in 1..Len(points) |->
                          [f \in {"date", "predicted_quantity", "lower_bound",
                                  "upper_bound", "confidence"} |-> points[k][f]]],
         learned_dow |-> ctx.learned_dow,
         locals |-> [k \in 1..Len(points) |->
                        [f \in {"day_of_week", "dow_factor", "clamped"} |-> points[k][f]]]]

\* a frame of n consecutive days ending on `last`, weekdays of one quantity
\* and Saturdays and Sundays of another
FallbackFrame(n, last, weekday, weekend) ==
    [i \in 1..n |->
        Row(last - n + i,
            IF DayOfWeek(last - n + i) \in {5, 6} THEN weekend ELSE weekday)]

\* frames of every tier (and none), ending at three places of a month, the
\* weekend equal to, above or below the weekdays
FallbackCalls ==
    {[op |-> "_generate_fallback_predictions",
      df |-> FallbackFrame(n, last, q[1], q[2]), days |-> days, result |-> Idle] :
        n \in {0, 1, 3, 7, 14, 30, 60}, last \in {70, 80, 90},
        q \in {<<3, 3>>, <<10, 30>>, <<30, 10>>, <<3, 4>>},
        days \in {1, MaxFallbackDays}}

CallGenerateFallbackPredictions(t) ==
    /\ pc[t] = "call"
    /\ loc[t].op = "_generate_fallback_predictions"
    /\ \E r \in {GenerateFallbackPredictions(loc[t].df, loc[t].days)} :
           Return(t, r.returned, [x \in (DOMAIN r) \ {"returned"} |-> r[x]])

NextFallback == \E t \in ReadThreads : CallGenerateFallbackPredictions(t)

SpecFallback == InitCall(FallbackCalls) /\ [][NextFallback]_vars

-----------------------------------------------------------------------------
(* Properties *)

\* requests that have their answer
PredictDone == {t \in ReadThreads : pc[t] = "done" /\ loc[t].op = "predict"}
PredictReturned == {t \in PredictDone : loc[t].result.kind = "returned"}
ForecastDone == {t \in ReadThreads : pc[t] = "done" /\ loc[t].op = "forecast"}
UniversalDone == {t \in ReadThreads : pc[t] = "done" /\ loc[t].op = "universal"}
TrainDone == {t \in TrainThreads : pc[t] = "done" /\ loc[t].op = "train"}

\* the error a finished train reported to its caller, "none" when it returned
TrainError(t) ==
    IF loc[t].result.kind = "raised" THEN loc[t].result.error
    ELSE IF loc[t].result.kind = "http" THEN loc[t].result.body
    ELSE [error |-> "none"]

\* C1: every forecast point predict returns has
\* lower_bound <= predicted_quantity <= upper_bound
C1_BoundsBracketPrediction ==
    \A t \in PredictReturned :
        \A i \in 1..Len(loc[t].result.value.preds) :
            LET point == loc[t].result.value.preds[i]
            IN  /\ point.lower_bound <= point.predicted_quantity
                /\ point.predicted_quantity <= point.upper_bound

\* the calendar day after a <<year, month, day>>
NextCalendarDay(ymd) ==
    IF ymd[3] < MonthLen[ymd[2]] THEN <<ymd[1], ymd[2], ymd[3] + 1>>
    ELSE <<ymd[1], ymd[2] + 1, 1>>

\* C2: predict returns exactly N points on N consecutive calendar days in
\* increasing order, the first one the day after the latest date of the history
\* it read
C2_ConsecutiveDates ==
    \A t \in PredictReturned :
        LET preds == loc[t].result.value.preds
        IN  /\ Len(preds) = loc[t].days
            /\ preds[1].date = NextCalendarDay(IsoFormat(MaxDate(loc[t].history)))
            /\ \A i \in 2..Len(preds) : preds[i].date = NextCalendarDay(preds[i - 1].date)

\* a forecast of more than one day that runs over the end of a month
C2_Witness ==
    \E t \in PredictReturned :
        LET preds == loc[t].result.value.preds
        IN  /\ Len(preds) = MaxDays
            /\ preds[1].date[2] # preds[Len(preds)].date[2]

\* C3: a train that ends in an error reported to its caller leaves the product's
\* artifact as it was before the call, in memory and in the store
C3_FailedTrainLeavesArtifact ==
    \A t \in TrainDone :
        TrainError(t).error # "none" => ArtifactState(loc[t].p) = loc[t].before

\* C4: predict for a product that is not in memory and whose artifact train has
\* saved loads the artifact and returns N points
C4_SavedArtifactLoadsOnDemand ==
    \A t \in PredictDone :
        (~loc[t].at_call.in_memory /\ ModelsDir \in loc[t].at_call.stored)
            => /\ loc[t].result.kind = "returned"
               /\ Len(loc[t].result.value.preds) = loc[t].days

\* C5: the regressors and the history a predict has read belong to one training
\* run: the history is the series the container was trained on
C5_PredictReadsOneRun ==
    \A t \in ReadThreads :
        (loc[t].op = "predict" /\ pc[t] \in {"predict_299", "done"}
            /\ "history" \in DOMAIN loc[t])
            => /\ TailN(loc[t].history, LAST_DATA_ROWS) = loc[t].container.last_data
               /\ Len(loc[t].history) = loc[t].container.metadata.data_points

\* C6: a forecast requested after a train of the product has returned, and
\* answered before any other train of it, is computed from that train's artifact
C6_ForecastsUseRetrainedArtifact ==
    \A t \in PredictDone \cup ForecastDone :
        (loc[t].seen # {} /\ JustTrained(loc[t].p) = loc[t].seen)
            => /\ (loc[t].op = "predict" /\ loc[t].result.kind = "returned")
                      => loc[t].container \in loc[t].seen
               /\ (loc[t].op = "forecast" /\ loc[t].result.status = 200)
                      => loc[t].product_forecaster.artifact \in loc[t].seen

\* request bodies that are a series: rows with quantities on dates that parse
IsSeries(sales) ==
    /\ sales # <<>>
    /\ \A i \in 1..Len(sales) :
           /\ "quantity" \in DOMAIN sales[i]
           /\ sales[i].date # NaT

\* the length of the densified series of each request body that is one
DenseLengths ==
    [name \in {n \in SalesInputs : IsSeries(SalesData(n))} |->
        Len(FillMissingDates(NormalizeDataframe(SalesData(name)).df))]

\* C7: train reports insufficient data, naming the minimum 30 and the actual
\* count, exactly when the densified series has fewer than 30 rows
C7_InsufficientIffDenseShort ==
    \A t \in TrainThreads :
        (loc[t].op = "train" /\ pc[t] # "train_119"
            /\ loc[t].sales \in DOMAIN DenseLengths)
            => LET dense == DenseLengths[loc[t].sales]
                   insufficient ==
                       /\ pc[t] = "done"
                       /\ TrainError(t).error = "insufficient"
                       /\ TrainError(t).minimum = MIN_TRAINING_DAYS
                       /\ TrainError(t).got = dense
               IN  (dense < MIN_TRAINING_DAYS) <=> insufficient

\* C8: a forecast request for a product without an artifact is answered with a
\* model-not-found error: predict raises at once, the forecast endpoint
\* answers 404, and no forecast is returned
C8_NoArtifactIsNotFound ==
    \A t \in ReadThreads :
        /\ (loc[t].op = "predict" /\ ~loc[t].at_call.in_memory
                /\ ModelsDir \notin loc[t].at_call.stored)
               => /\ pc[t] = "done"
                  /\ loc[t].result = Raised("model_file_not_found")
        /\ (loc[t].op = "forecast" /\ loc[t].at_call.stored = {})
               => /\ pc[t] = "done"
                  /\ loc[t].result.kind = "http"
                  /\ loc[t].result.status = 404
                  /\ loc[t].result.body.error = "model_not_found"

\* a request for a product that was never trained has been refused
C8_Witness ==
    \E t \in PredictDone \cup ForecastDone :
        /\ ~loc[t].at_call.in_memory
        /\ loc[t].at_call.stored = {}
        /\ loc[t].result.kind \in {"raised", "http"}

\* requests whose loaded or trained model yielded no prediction
EmptyForecast ==
    {t \in ForecastDone : "predicted" \in DOMAIN loc[t] /\ loc[t].predicted = <<>>}
EmptyUniversal ==
    {t \in UniversalDone :
        /\ "predicted" \in DOMAIN loc[t]
        /\ loc[t].brain.loaded
        /\ loc[t].predicted = <<>>}

\* the answer of request t is a forecast and not an error: one point for each
\* of the days asked for
AnswersForecast(t) ==
    /\ loc[t].result.status = 200
    /\ Len(loc[t].result.body.predictions) = loc[t].days

\* the answer of universal request t is the statistical fallback's forecast
\* for the request's series: one point for each day asked for, on the days
\* after the last date of the series (no point when no row of it has a date)
AnswersFallback(t) ==
    LET predictions == loc[t].result.body.predictions
    IN  /\ loc[t].result.status = 200
        /\ Len(predictions) = IF loc[t].df = <<>> THEN 0 ELSE loc[t].days
        /\ \A i \in 1..Len(predictions) :
               predictions[i].date = IsoFormat(MaxDate(loc[t].df) + i)

StepProduct(t) == IF loc'[t].op # "idle" THEN loc'[t].p ELSE loc[t].p

\* C10: a step of a request for product p leaves the model entry, the history
\* entry and the stored artifact of every other product as they are
C10_OtherProductsUntouched ==
    [][\A t \in Threads :
          (pc'[t] # pc[t] \/ loc'[t] # loc[t])
              => \A q \in Products \ {StepProduct(t)} :
                     ArtifactState(q)' = ArtifactState(q)]_vars

\* both products are trained and stored, and a predict of one has returned
C10_Witness ==
    /\ Products \subseteq DOMAIN models
    /\ Products \subseteq DOMAIN history_cache
    /\ Products \subseteq DOMAIN files[ModelsDir]
    /\ PredictReturned # {}

\* calls of the functions that have returned
WeightsDone ==
    {t \in ReadThreads : pc[t] = "done" /\ loc[t].op = "calculate_adaptive_weights"}
EnsembleDone ==
    {t \in ReadThreads : pc[t] = "done" /\ loc[t].op = "ensemble_forecast"}
RecommendationsDone ==
    {t \in ReadThreads : pc[t] = "done" /\ loc[t].op = "generate_recommendations"}

\* C12: calculate_adaptive_weights returns rule 0.7 / ml 0.3 exactly when
\* data_quality_days < 60, rule 0.3 / ml 0.7 exactly when data_quality_days > 90
\* and agreement_score >= 0.8, and rule 0.5 / ml 0.5 in every other case; the
\* two weights always sum to 1.0
C12_AdaptiveWeightsTable ==
    \A t \in WeightsDone :
        LET w == loc[t].result.value
            d == loc[t].data_quality_days
            a == loc[t].agreement_score
        IN  /\ w = [rule |-> 7, ml |-> 3] <=> d < 60
            /\ w = [rule |-> 3, ml |-> 7] <=> (d > 90 /\ a >= 80)
            /\ w = [rule |-> 5, ml |-> 5] <=> ~(d < 60) /\ ~(d > 90 /\ a >= 80)
            /\ w.rule + w.ml = 10

\* (60, 0.9) and (90, 0.9) have been answered, with 0.5 / 0.5
C12_Witness ==
    \E t \in WeightsDone :
        /\ loc[t].data_quality_days = 60
        /\ loc[t].agreement_score = 90
        /\ loc[t].result.value = [rule |-> 5, ml |-> 5]

\* the forecast values a generate_recommendations call was given
ForecastOf(t) == [i \in 1..Len(loc[t].ensemble) |-> loc[t].ensemble[i].forecast]

\* the position (from 1) of the first maximum of a non-empty list
FirstMaximum(v) ==
    CHOOSE i \in 1..Len(v) :
        /\ \A j \in 1..Len(v) : v[j] <= v[i]
        /\ \A j \in 1..Len(v) : v[j] = v[i] => i <= j

\* the rules in their order
RuleOrder == <<"SCALE_UP", "PEAK_STRATEGY", "INTERVENTION", "OPTIMIZE", "STANDARD">>

\* the condition of a rule on the arguments of a call with a non-empty forecast
RuleHolds(t, rule) ==
    LET v == ForecastOf(t)
        n == Len(v)
        burst == loc[t].realtime_burst
        status == loc[t].realtime_momentum.status
        day1 == loc[t].ensemble[1].confidence
    IN  CASE rule = "SCALE_UP" ->
               /\ "severity" \in DOMAIN burst
               /\ burst.severity = "CRITICAL"
               /\ v[n] > v[1]
               /\ day1 = "HIGH"
          [] rule = "PEAK_STRATEGY" ->
               /\ FirstMaximum(v) - 1 < n - 2
               /\ 100 * v[n] < 75 * v[FirstMaximum(v)]
          [] rule = "INTERVENTION" -> status = "DECLINING" /\ v[n] < v[1]
          [] rule = "OPTIMIZE" -> status = "STABLE" /\ day1 = "HIGH"
          [] rule = "STANDARD" -> TRUE

\* C11: for a non-empty blended forecast generate_recommendations returns
\* exactly one recommendation, that of the first rule in the order SCALE_UP,
\* PEAK_STRATEGY, INTERVENTION, OPTIMIZE, STANDARD whose condition holds; for an
\* empty forecast it returns the empty list
C11_FirstMatchingRuleOnly ==
    \A t \in RecommendationsDone :
        LET recs == loc[t].result.value
            first == CHOOSE k \in 1..Len(RuleOrder) :
                         /\ RuleHolds(t, RuleOrder[k])
                         /\ \A j \in 1..(k - 1) : ~RuleHolds(t, RuleOrder[j])
        IN  IF loc[t].ensemble = <<>> THEN recs = <<>>
            ELSE Len(recs) = 1 /\ recs[1].type = RuleOrder[first]

\* a call whose arguments satisfy both the SCALE_UP and the PEAK_STRATEGY
\* condition has returned SCALE_UP alone
C11_Witness ==
    \E t \in RecommendationsDone :
        /\ loc[t].ensemble # <<>>
        /\ RuleHolds(t, "SCALE_UP")
        /\ RuleHolds(t, "PEAK_STRATEGY")
        /\ Len(loc[t].result.value) = 1
        /\ loc[t].result.value[1].type = "SCALE_UP"

\* x percent of a non-negative total, truncated to an integer
PercentTruncated(x, total) ==
    CHOOSE k \in 0..(2 * total) : 100 * k <= x * total /\ x * total < 100 * (k + 1)

\* C13: the PEAK_STRATEGY condition holds exactly when the first maximum of
\* the forecast lies at an index below length - 2 and the final value is below
\* 75% of it; the pre-peak stock is 120% of the sum up to and including the
\* peak day, the post-peak stock 100% of the sum of the remaining days, and
\* savings is the 130%-of-total naive stock minus the two phase stocks, each
\* truncated to an integer
C13_PeakConditionAndStocks ==
    \A t \in RecommendationsDone :
        loc[t].ensemble # <<>> =>
            LET v == ForecastOf(t)
                n == Len(v)
                peak == FirstMaximum(v)
                recs == loc[t].result.value
                before == SeqSum(SubSeq(v, 1, peak))
                after == SeqSum(SubSeq(v, peak + 1, n))
            IN  /\ loc[t].is_peak_with_decline
                    <=> (peak - 1 < n - 2 /\ 100 * v[n] < 75 * v[peak])
                /\ recs[1].type = "PEAK_STRATEGY" =>
                    /\ loc[t].is_peak_with_decline
                    /\ recs[1].phases[1].stock_needed = PercentTruncated(120, before)
                    /\ recs[1].phases[2].stock_needed = PercentTruncated(100, after)
                    /\ recs[1].savings.amount =
                           PercentTruncated(130, before + after)
                           - (PercentTruncated(120, before)
                              + PercentTruncated(100, after))

\* PEAK_STRATEGY has been returned for a forecast whose pre-peak stock and
\* naive stock are both truncated
C13_Witness ==
    \E t \in RecommendationsDone :
        /\ loc[t].ensemble # <<>>
        /\ loc[t].result.value[1].type = "PEAK_STRATEGY"
        /\ (120 * SeqSum(SubSeq(ForecastOf(t), 1, FirstMaximum(ForecastOf(t))))) % 100 # 0
        /\ (130 * SeqSum(ForecastOf(t))) % 100 # 0

\* the calendar date an ISO date string spells, as one number
DateNumber(ymd) == ymd[1] * 10000 + ymd[2] * 100 + ymd[3]

\* the value of field `key` a forecast list gives for a date it holds once
ValueOn(preds, date, key) ==
    (preds[CHOOSE i \in 1..Len(preds) : preds[i].date = date])[key]

\* C19: ensemble_forecast emits exactly one prediction per date of the union
\* of the rule-based and the ML dates, in ascending date order; on a date both
\* sources hold the blended quantity is rule_weight x rule_value + ml_weight x
\* ml_median and the agreement of the day is
\* 1 - min(|rule - ml_median| / max(ml_median, 1), 1); every agreement lies in
\* [0, 1]
C19_UnionOfDatesBlended ==
    \A t \in EnsembleDone :
        LET preds == loc[t].result.value.predictions
            agreement == loc[t].agreement_scores
            rule == loc[t].rule_pred
            ml == loc[t].ml
            rule_dates == {rule[i].date : i \in 1..Len(rule)}
            ml_dates == {ml[i].date : i \in 1..Len(ml)}
        IN  /\ {preds[i].date : i \in 1..Len(preds)} = rule_dates \cup ml_dates
            /\ Len(preds) = Cardinality(rule_dates \cup ml_dates)
            /\ \A i \in 1..(Len(preds) - 1) :
                   DateNumber(preds[i].date) < DateNumber(preds[i + 1].date)
            /\ Len(agreement) = Len(preds)
            /\ \A i \in 1..Len(preds) :
                   /\ agreement[i].den > 0
                   /\ 0 <= agreement[i].num
                   /\ agreement[i].num <= agreement[i].den
                   /\ preds[i].date \in rule_dates \cap ml_dates =>
                        LET rule_value == ValueOn(rule, preds[i].date, "predicted_quantity")
                            ml_median == ValueOn(ml, preds[i].date, "predicted_quantity")
                            scale == IF ml_median >= 1 THEN ml_median ELSE 1
                            gap == IF rule_value >= ml_median THEN rule_value - ml_median
                                   ELSE ml_median - rule_value
                        IN  /\ preds[i].predicted_quantity =
                                   loc[t].weights.rule * rule_value
                                   + loc[t].weights.ml * ml_median
                            /\ agreement[i].num * scale =
                                   agreement[i].den
                                   * (scale - (IF gap <= scale THEN gap ELSE scale))

\* a blend of three dates has been returned in which a date held by both
\* sources agrees in part and the two sources given newest first differ in
\* their dates
C19_Witness ==
    \E t \in EnsembleDone :
        /\ Len(loc[t].result.value.predictions) = 3
        /\ Len(loc[t].rule_pred) = 2
        /\ Len(loc[t].ml) = 2
        /\ \E i \in 1..3 :
               /\ loc[t].result.value.predictions[i].rule_based = 19
               /\ loc[t].result.value.predictions[i].ml_p50 = 20
               /\ loc[t].agreement_scores[i] = [num |-> 19, den |-> 20]

\* C20: ensemble_forecast reports the trend INCREASING exactly when the last
\* blended value is greater than 1.05 times the first, DECREASING exactly when
\* it is less than 0.95 times the first, and STABLE otherwise, also for a single
\* prediction and for none
C20_TrendThresholds ==
    \A t \in EnsembleDone :
        LET preds == loc[t].result.value.predictions
            trend == loc[t].result.value.trend
            n == Len(preds)
        IN  IF n <= 1 THEN trend = "STABLE"
            ELSE LET first == preds[1].predicted_quantity
                     last == preds[n].predicted_quantity
                 IN  /\ trend = "INCREASING" <=> 100 * last > 105 * first
                     /\ trend = "DECREASING" <=> 100 * last < 95 * first
                     /\ trend = "STABLE" <=>
                            (100 * last <= 105 * first /\ 100 * last >= 95 * first)

\* a blend whose last value is exactly 1.05 times its first has been reported
\* STABLE
C20_Witness ==
    \E t \in EnsembleDone :
        LET preds == loc[t].result.value.predictions
        IN  /\ Len(preds) >= 2
            /\ preds[1].predicted_quantity > 0
            /\ 100 * preds[Len(preds)].predicted_quantity
                   = 105 * preds[1].predicted_quantity
            /\ loc[t].result.value.trend = "STABLE"

\* calls of the detectors that have returned
MomentumDone ==
    {t \in ReadThreads : pc[t] = "done" /\ loc[t].op = "_calculate_momentum"}
BurstDone ==
    {t \in ReadThreads : pc[t] = "done" /\ loc[t].op = "_detect_burst"}

\* the sum of the quantities of the rows lo..hi of a frame
QuantitySum(df, lo, hi) ==
    LET f[i \in (lo - 1)..hi] == IF i = lo - 1 THEN 0 ELSE f[i - 1] + df[i].quantity
    IN  f[hi]

\* C15: the momentum ratio is mean(last 7 rows) / mean(the 7 rows before them),
\* 1.0 when fewer than 14 rows are available or the previous mean is 0; the
\* status is TRENDING_UP above 1.15, else GROWING above 1.05, else DECLINING
\* below 0.85, else FALLING below 0.95, else STABLE, so that exactly 1.15,
\* 1.05, 0.95 and 0.85 give GROWING, STABLE, STABLE and FALLING
C15_MomentumRatioAndStatus ==
    \A t \in MomentumDone :
        LET df == loc[t].df
            n == Len(df)
            \* seven times the two means
            recent == QuantitySum(df, n - 6, n)
            previous == QuantitySum(df, n - 13, n - 7)
            one == n < 14 \/ previous = 0
            num == IF one THEN 1 ELSE recent
            den == IF one THEN 1 ELSE previous
            status == loc[t].result.value.status
        IN  /\ n >= 7 => loc[t].ratio.num * den = num * loc[t].ratio.den
            /\ n < 7 => loc[t].result.value.combined = 1000
            /\ status = "TRENDING_UP" <=> 100 * num > 115 * den
            /\ status = "GROWING" <=>
                   (100 * num <= 115 * den /\ 100 * num > 105 * den)
            /\ status = "DECLINING" <=> 100 * num < 85 * den
            /\ status = "FALLING" <=>
                   (100 * num >= 85 * den /\ 100 * num < 95 * den)
            /\ status = "STABLE" <=>
                   (100 * num <= 105 * den /\ 100 * num >= 95 * den)

\* a frame whose weekly means stand at exactly 1.15 has been answered GROWING
C15_Witness ==
    \E t \in MomentumDone :
        /\ Len(loc[t].df) >= 14
        /\ QuantitySum(loc[t].df, Len(loc[t].df) - 6, Len(loc[t].df)) = 7 * 115
        /\ QuantitySum(loc[t].df, Len(loc[t].df) - 13, Len(loc[t].df) - 7) = 7 * 100
        /\ loc[t].result.value.status = "GROWING"

\* z > k for the latest row of a frame of at least 5 rows, k given as kn / kd:
\* with n rows before the latest, of sum s, the mean is s / n and the
\* deviation sqrt(sum of (q - mean)^2 / n); the quantities are in tenths, the
\* floor of the deviation is 1
ZAbove(df, kn, kd) ==
    LET n == Len(df) - 1
        s == QuantitySum(df, 1, n)
        \* n times (latest - mean)
        lead == n * df[n + 1].quantity - s
        \* n^2 times the sum of the squared deviations from the mean
        f[i \in 0..n] == IF i = 0 THEN 0
                         ELSE f[i - 1] + (n * df[i].quantity - s) * (n * df[i].quantity - s)
    IN  /\ lead > 0
        /\ kd * kd * lead * lead * n > kn * kn * f[n]
        /\ kd * lead > kn * n

\* C16: with z = (latest - mean of the others) / max(std of the others, 0.1)
\* the burst level is CRITICAL if z > 3, HIGH if z > 2, MEDIUM if z > 1.5 and
\* NORMAL otherwise; a drop is NORMAL, and identical values followed by one
\* that exceeds them by 4 times the floored deviation are CRITICAL
C16_BurstLevelByZScore ==
    \A t \in BurstDone :
        Len(loc[t].df) >= 5 =>
            LET df == loc[t].df
                n == Len(df)
                level == loc[t].result.value.level
            IN  /\ level = "CRITICAL" <=> ZAbove(df, 3, 1)
                /\ level = "HIGH" <=> (~ZAbove(df, 3, 1) /\ ZAbove(df, 2, 1))
                /\ level = "MEDIUM" <=> (~ZAbove(df, 2, 1) /\ ZAbove(df, 3, 2))
                /\ level = "NORMAL" <=> ~ZAbove(df, 3, 2)
                /\ n * df[n].quantity <= QuantitySum(df, 1, n) => level = "NORMAL"
                /\ (/\ \A i \in 1..(n - 1) : df[i].quantity = df[1].quantity
                    /\ df[n].quantity = df[1].quantity + 4)
                       => level = "CRITICAL"

\* identical values followed by one 4 floored deviations above them have been
\* answered CRITICAL
C16_Witness ==
    \E t \in BurstDone :
        LET df == loc[t].df
        IN  /\ Len(df) >= 5
            /\ \A i \in 1..(Len(df) - 1) : df[i].quantity = df[1].quantity
            /\ df[Len(df)].quantity = df[1].quantity + 4
            /\ loc[t].result.value.level = "CRITICAL"

\* C17: the burst type is NORMAL whenever the level is NORMAL, otherwise
\* SEASONAL if the latest date is a Saturday or a Sunday and SPIKE if not;
\* with fewer than 5 rows the detector returns score 0, level NORMAL, type
\* NORMAL
C17_BurstType ==
    \A t \in BurstDone :
        LET r == loc[t].result.value
            df == loc[t].df
            weekend == \E k \in 0..52 : df[Len(df)].date \in {7 * k + 5, 7 * k + 6}
        IN  /\ r.level = "NORMAL" => r.type = "NORMAL"
            /\ r.level # "NORMAL" =>
                   r.type = (IF weekend THEN "SEASONAL" ELSE "SPIKE")
            /\ Len(df) < 5 =>
                   r.score.num = 0 /\ r.level = "NORMAL" /\ r.type = "NORMAL"

\* a burst whose latest date is a Sunday has been answered SEASONAL
C17_Witness ==
    \E t \in BurstDone :
        /\ loc[t].result.value.level # "NORMAL"
        /\ IsoFormat(MaxDate(loc[t].df)) = <<2024, 2, 4>>
        /\ loc[t].result.value.type = "SEASONAL"

\* calls of create_features that have returned
FeaturesDone ==
    {t \in ReadThreads : pc[t] = "done" /\ loc[t].op = "create_features"}

\* C14: no feature of a row depends on that row's own quantity: for every row
\* index t, the first rows included, changing quantity[t] alone leaves every
\* feature of row t unchanged
C14_NoFeatureOfOwnQuantity ==
    \A t \in FeaturesDone :
        loc[t].result.value.row = loc[t].result.value.other_row

\* request bodies that have been made a frame
IngestDone ==
    {t \in ReadThreads :
        /\ pc[t] = "done"
        /\ loc[t].op \in {"_normalize_dataframe", "predict_universal"}
        /\ loc[t].result.kind = "returned"}

\* C18: the observations of one date are summed into one daily quantity on
\* every path that ingests the caller's rows, the train path through
\* _normalize_dataframe and the universal prediction path
C18_SameDateObservationsSummed ==
    \A t \in IngestDone :
        LET sales == loc[t].sales
            df == loc[t].result.value
            total(d) == QuantitySum(SelectSeq(sales, LAMBDA row : row.date = d),
                                    1, Len(SelectSeq(sales, LAMBDA row : row.date = d)))
        IN  /\ {df[i].date : i \in 1..Len(df)} = {sales[i].date : i \in 1..Len(sales)}
            /\ \A i \in 1..Len(df) :
                   /\ df[i].quantity = total(df[i].date)
                   /\ \A j \in 1..Len(df) : df[j].date = df[i].date => j = i

\* C24: in a PEAK_STRATEGY recommendation over a forecast of L days the day
\* lists of phase 1 and phase 2 are disjoint, together are exactly the days
\* 1..L, and phase 1 ends on the peak day
C24_PhasesPartitionHorizon ==
    \A t \in RecommendationsDone :
        (loc[t].ensemble # <<>> /\ loc[t].result.value[1].type = "PEAK_STRATEGY") =>
            LET rec == loc[t].result.value[1]
                days1 == {rec.phases[1].days[i] : i \in 1..Len(rec.phases[1].days)}
                days2 == {rec.phases[2].days[i] : i \in 1..Len(rec.phases[2].days)}
            IN  /\ days1 \cap days2 = {}
                /\ days1 \cup days2 = 1..Len(loc[t].ensemble)
                /\ rec.phases[1].days[Len(rec.phases[1].days)]
                       = FirstMaximum(ForecastOf(t))

\* C25: when the result of _detect_burst reports CRITICAL and is passed
\* unchanged as the burst signal to generate_recommendations, with a forecast
\* whose trend is increasing and whose day-1 confidence is HIGH, the
\* recommendation returned is SCALE_UP with priority URGENT
C25_DetectedBurstScalesUp ==
    \A t \in RecommendationsDone :
        LET burst == loc[t].realtime_burst
            v == ForecastOf(t)
        IN  (/\ loc[t].ensemble # <<>>
             /\ DOMAIN burst = {"score", "level", "type"}
             /\ burst.level = "CRITICAL"
             /\ 100 * v[Len(v)] > 105 * v[1]
             /\ loc[t].ensemble[1].confidence = "HIGH")
            => /\ Len(loc[t].result.value) = 1
               /\ loc[t].result.value[1].type = "SCALE_UP"
               /\ loc[t].result.value[1].priority = "URGENT"

\* C26: the trend direction generate_recommendations uses for the SCALE_UP and
\* INTERVENTION rules equals the overall trend ensemble_forecast reports for
\* the same blended series: INCREASING only when last > first x 1.05,
\* DECREASING only when last < first x 0.95, STABLE otherwise
C26_TrendDirectionIsOverallTrend ==
    \A t \in RecommendationsDone :
        loc[t].ensemble # <<>> =>
            LET v == ForecastOf(t)
                first == v[1]
                last == v[Len(v)]
            IN  /\ loc[t].trend_direction = OverallTrend(loc[t].ensemble)
                /\ loc[t].trend_direction = "INCREASING" <=> 100 * last > 105 * first
                /\ loc[t].trend_direction = "DECREASING" <=> 100 * last < 95 * first

\* C29: for a forecast of non-negative values, whenever generate_recommendations
\* returns PEAK_STRATEGY the divisors of that branch are not zero (the peak
\* value is positive, phase 1 sums at least one day and phase 2 at least two),
\* the naive total is divided by only when positive, and the reported savings
\* amount is not negative; no other branch divides by a forecast quantity
C29_PeakStrategyDivisorsAndSavings ==
    \A t \in RecommendationsDone :
        (loc[t].ensemble # <<>> /\ loc[t].result.value[1].type = "PEAK_STRATEGY") =>
            LET rec == loc[t].result.value[1]
                v == ForecastOf(t)
                before_peak == SubSeq(v, 1, rec.peak_info.index)
                after_peak == SubSeq(v, rec.peak_info.index + 1, Len(v))
            IN  /\ \A i \in 1..Len(v) : v[i] >= 0
                /\ rec.peak_info.quantity > 0
                /\ Len(before_peak) >= 1
                /\ Len(after_peak) >= 2
                /\ rec.savings.total_naive >= 0
                /\ rec.savings.amount >= 0
                /\ rec.savings.amount = rec.savings.total_naive - rec.savings.total_smart

\* PEAK_STRATEGY has been returned for a forecast whose peak leaves exactly two
\* later days, both of quantity 0, and whose savings amount is 0
C29_Witness ==
    \E t \in RecommendationsDone :
        /\ loc[t].ensemble # <<>>
        /\ loc[t].result.value[1].type = "PEAK_STRATEGY"
        /\ Len(loc[t].ensemble) - loc[t].result.value[1].peak_info.index = 2
        /\ loc[t].result.value[1].phases[2].stock_needed = 0
        /\ loc[t].result.value[1].savings.amount = 0

\* C30: in ensemble_forecast, on a date present in only one of the two sources
\* the blended quantity equals that source's value (the rule value on a
\* rule-only date, the ML median on an ML-only date), and every emitted
\* prediction satisfies lower_bound <= predicted_quantity <= upper_bound
C30_SingleSourceDatesKeepTheirValue ==
    \A t \in EnsembleDone :
        LET preds == loc[t].result.value.predictions
            rule == loc[t].rule_pred
            ml == loc[t].ml
            rule_dates == {rule[i].date : i \in 1..Len(rule)}
            ml_dates == {ml[i].date : i \in 1..Len(ml)}
        IN  \A i \in 1..Len(preds) :
                /\ preds[i].date \in rule_dates \ ml_dates =>
                     preds[i].predicted_quantity
                         = 10 * ValueOn(rule, preds[i].date, "predicted_quantity")
                /\ preds[i].date \in ml_dates \ rule_dates =>
                     preds[i].predicted_quantity
                         = 10 * ValueOn(ml, preds[i].date, "predicted_quantity")
                /\ preds[i].lower_bound <= preds[i].predicted_quantity
                /\ preds[i].predicted_quantity <= preds[i].upper_bound

\* C23: after create_features no feature cell is missing in any row, for
\* series of every length, length 1 and lengths below the largest lag (14)
\* included: an undefined lag cell holds the first defined cell below it
\* (backward fill) and 0 when the whole column is undefined; the output has one
\* row per input row, in ascending date order
C23_NoFeatureCellMissing ==
    \A t \in FeaturesDone :
        LET row == loc[t].result.value.row
            df == loc[t].df
            n == Len(df)
            i == loc[t].t + 1
            lag(k) == IF i > k THEN Number(df[i - k].quantity, 1)
                      ELSE IF n > k THEN Number(df[1].quantity, 1)
                      ELSE Number(0, 1)
        IN  /\ \A c \in {"sales_lag_1", "sales_lag_7", "sales_lag_14",
                         "rolling_mean_7", "rolling_mean_14", "rolling_std_7",
                         "trend"} : row[c] # NaN /\ row[c].den > 0
            /\ \A c \in {"day_of_week", "day_of_month", "week_of_month",
                         "is_weekend", "is_payday"} : row[c] \in Nat
            /\ row.sales_lag_1 = lag(1)
            /\ row.sales_lag_7 = lag(7)
            /\ row.sales_lag_14 = lag(14)
            /\ n = 1 => row.rolling_mean_7 = Number(0, 1) /\ row.rolling_std_7 = Number(0, 1)
            /\ Len(loc[t].dates) = n
            /\ \A j \in 1..n : loc[t].dates[j] = df[j].date
            /\ \A j \in 1..(n - 1) : loc[t].dates[j] < loc[t].dates[j + 1]

\* the first row of a frame of 8 rows has been returned: its lag-1 and lag-7
\* cells are filled from below, its lag-14 cell, undefined in every row, is 0
C23_Witness ==
    \E t \in FeaturesDone :
        /\ Len(loc[t].df) = 8
        /\ loc[t].t = 0
        /\ loc[t].result.value.row.sales_lag_7 = Number(loc[t].df[1].quantity, 1)
        /\ loc[t].result.value.row.sales_lag_14 = Number(0, 1)

\* C27: predict does not change the stored model or history of any product,
\* nor any artifact file; the points it returns are those of the rollout over
\* the stored regressors and history, so that a second call for the same
\* product and horizon returns the same, and the result for N days is the
\* first N points of the result for every M > N days
C27_PredictLeavesStoreAndIsPrefix ==
    [][\A t \in ReadThreads :
          ((pc'[t] # pc[t] \/ loc'[t] # loc[t]) /\ loc'[t].op = "predict") =>
              /\ files' = files
              /\ meta_files' = meta_files
              /\ \A q \in DOMAIN models : q \in DOMAIN models' /\ models'[q] = models[q]
              /\ \A q \in DOMAIN history_cache :
                     q \in DOMAIN history_cache' /\ history_cache'[q] = history_cache[q]
              /\ (/\ pc'[t] = "done"
                  /\ loc'[t].result.kind = "returned"
                  /\ loc[t].container = models[loc[t].p]
                  /\ loc[t].history = FillMissingDates(history_cache[loc[t].p])) =>
                     /\ loc'[t].result.value.history_days
                            = Len(history_cache[loc[t].p])
                     /\ \A M \in loc[t].days..(MaxDays + 1) :
                            loc'[t].result.value.preds =
                                SubSeq(PredictLoop(models[loc[t].p].models,
                                           FillMissingDates(history_cache[loc[t].p]),
                                           <<>>, M),
                                       1, loc[t].days)]_vars

\* a predict for one day has returned and the stored model and history are
\* those it read: the rollout over them for MaxDays days starts with the point
\* returned and goes on to a later date
C27_Witness ==
    \E t \in PredictReturned :
        /\ loc[t].days = 1
        /\ loc[t].p \in DOMAIN models
        /\ loc[t].container = models[loc[t].p]
        /\ loc[t].history = FillMissingDates(history_cache[loc[t].p])
        /\ LET longer == PredictLoop(models[loc[t].p].models, loc[t].history,
                                     <<>>, MaxDays)
           IN  /\ Len(longer) = MaxDays
               /\ longer[1] = loc[t].result.value.preds[1]
               /\ longer[MaxDays].date # longer[1].date

\* C28: for a product trained once, predict served from the persisted artifact
\* by a forecaster that does not hold the product in memory returns what
\* predict served from the in-memory state left by train returns: the count of
\* historical days of the training run and the points of the rollout over its
\* regressors and history
C28_MemoryAndArtifactAgree ==
    \A t \in PredictDone :
        (/\ trains = 1
         /\ ~loc[t].at_call.in_memory
         /\ ModelsDir \in loc[t].at_call.stored
         /\ loc[t].p \in DOMAIN files[ModelsDir]) =>
            LET payload == files[ModelsDir][loc[t].p]
            IN  /\ loc[t].result.kind = "returned"
                /\ loc[t].result.value.history_days = payload.metadata.data_points
                /\ payload.metadata.data_points <= LAST_DATA_ROWS =>
                       loc[t].result.value.preds =
                           PredictLoop(payload.models, payload.last_data,
                                       <<>>, loc[t].days)

\* calls of the fallback that have returned
FallbackDone ==
    {t \in ReadThreads :
        pc[t] = "done" /\ loc[t].op = "_generate_fallback_predictions"}

\* max_change of a returned call, in thousandths
FallbackMaxChange(t) == 150 + 15 * FallbackTier(Len(loc[t].df)).variation_scale

\* C21: in the fallback forecast, every predicted day after the first differs
\* from the previous predicted day, in the integers returned, by at most the
\* fraction 0.15 + 0.15 x variation_scale of the previous day's value plus
\* the half unit that rounding to an integer can add
C21_DayOverDayChangeWithinRounding ==
    \A t \in FallbackDone :
        LET returned == loc[t].result.value
        IN  \A k \in 2..Len(returned) :
                2000 * Abs(returned[k].predicted_quantity
                           - returned[k - 1].predicted_quantity)
                    <= 2 * FallbackMaxChange(t) * returned[k - 1].predicted_quantity
                       + 1000

\* C21 as stated: the integers returned differ by at most the fraction
\* 0.15 + 0.15 x variation_scale of the previous day's value
C21_DayOverDayChangeWithinFraction ==
    \A t \in FallbackDone :
        LET returned == loc[t].result.value
        IN  \A k \in 2..Len(returned) :
                1000 * Abs(returned[k].predicted_quantity
                           - returned[k - 1].predicted_quantity)
                    <= FallbackMaxChange(t) * returned[k - 1].predicted_quantity

\* a forecast has been returned in which the smoothing replaced the prediction
\* of a day after the first and the integer of that day is more than the
\* fraction away from the integer of the day before
C21_Witness ==
    \E t \in FallbackDone :
        LET returned == loc[t].result.value
        IN  \E k \in 2..Len(returned) :
                /\ loc[t].locals[k].clamped
                /\ 1000 * Abs(returned[k].predicted_quantity
                              - returned[k - 1].predicted_quantity)
                       > FallbackMaxChange(t) * returned[k - 1].predicted_quantity

\* C22: on a Saturday or Sunday whose learned day-of-week factor is lower
\* than the default factor of that day, the dow_factor applied is not below
\* the default factor
C22_WeekendFactorNotBelowDefault ==
    \A t \in FallbackDone :
        \A k \in 1..Len(loc[t].locals) :
            LET day_of_week == loc[t].locals[k].day_of_week
                dow_factor == loc[t].locals[k].dow_factor
                learned_dow == loc[t].learned_dow
            IN  (/\ day_of_week \in {5, 6}
                 /\ day_of_week \in DOMAIN learned_dow
                 /\ 100 * learned_dow[day_of_week].num
                        < DefaultDow[day_of_week + 1] * learned_dow[day_of_week].den)
                => 100 * dow_factor.num >= DefaultDow[day_of_week + 1] * dow_factor.den

====
